---- MODULE Spec2Model ----
(***************************************************************************)
(* Credibility scoring engine of the ai-service:                           *)
(*   app/services/credibility_scorer.py  (CredibilityScorer)               *)
(*   app/api/v1/credibility.py           (/calculate, /batch, /badge)      *)
(*                                                                         *)
(* Numbers.  Timestamps are whole days.  Factor values are exact           *)
(* rationals (integers, or num/den for the reputation average); the        *)
(* binary rounding error of Python floats is not modelled.  `score` is     *)
(* kept in tenths (897 = 89.7), `confidence` in tenths (3 = 0.3).          *)
(* Embedding vectors have EmbDim integer components (EmbDim stands for     *)
(* the provider's 1536); a cosine similarity is kept as num/sqrt(densq).   *)
(*                                                                         *)
(* The three other services, as far as their retry and fallback policies   *)
(* go (SpecServices):                                                      *)
(*   app/services/summarizer.py, app/services/translator.py                *)
(*   app/tasks/summarize_task.py         (process_summarization_task)      *)
(*   app/agents/moderator.py, app/agents/base_agent.py                     *)
(* A provider text is a sequence of tokens; a moderation confidence is in  *)
(* hundredths and a risk score is the fraction num/den.  The decorators    *)
(* of tenacity and the autoretry of Celery follow their documentation.     *)
(***************************************************************************)
EXTENDS Integers, Sequences, FiniteSets, TLC

\* ------------------------------------------------------------------ bounds
MaxArticles == 3   \* articles in one request (target + related, or batch)
EmbDim == 5        \* components of an embedding vector in the model
MaxSimilar == 9    \* similar articles handed to a factor calculator alone
MaxSources == 4    \* sources handed to _calculate_source_diversity alone
MaxBadgeScore == 1000   \* largest score, in tenths, asked of GET /badge
MaxRequests == 2   \* /calculate requests served concurrently

\* ------------------------------------------------------ program constants
TIME_WINDOW_DAYS == 3        \* timedelta(days=3)
THRESHOLD_NUM == 3           \* similarity_threshold = 0.75 = 3/4
THRESHOLD_DEN == 4
NEUTRAL_SCORE == 50          \* neutral fact consistency / fallback AI score
FALLBACK_CONFIDENCE == 3     \* 0.3, in tenths
DEFAULT_CONFIDENCE == 5      \* 0.5, in tenths
W_cross_coverage == 30       \* weights, in percent
W_source_diversity == 20
W_source_reputation == 20
W_fact_consistency == 15
W_ai_verification == 15

None == "None"
NoEmbedding == <<>>          \* ArticleMetadata.embedding = None


\* ------------------------------------------------------------ request data
\* ArticleInput records a client can post (published_at in days; `aware`
\* tells whether the parsed datetime carries a UTC offset).
ArticleInputs ==
  { [id |-> "a", source_type |-> "mainstream", source_bias |-> "left",
     source_credibility |-> 90, published_at |-> 4, aware |-> TRUE],
    [id |-> "b", source_type |-> "independent", source_bias |-> None,
     source_credibility |-> 60, published_at |-> 1, aware |-> TRUE],
    [id |-> "c", source_type |-> "international", source_bias |-> "right",
     source_credibility |-> 35, published_at |-> 0, aware |-> TRUE],
    [id |-> "b", source_type |-> "mainstream", source_bias |-> "center",
     source_credibility |-> 100, published_at |-> 2, aware |-> FALSE] }

Requests == UNION { [1..n -> ArticleInputs] : n \in 1..MaxArticles }

\* source_type and source_bias are free strings: further values can be posted
SourceInputs ==
  ArticleInputs \cup
  { [id |-> "d", source_type |-> "aggregator", source_bias |-> "neutral",
     source_credibility |-> 50, published_at |-> 3, aware |-> TRUE],
    [id |-> "e", source_type |-> "mainstream", source_bias |-> "",
     source_credibility |-> 70, published_at |-> 3, aware |-> TRUE] }

SourceLists == UNION { [1..n -> SourceInputs] : n \in 1..MaxSources }

\* lists of similar articles (two objects, in any arrangement)
SimilarLists == UNION { [1..n -> {1, 2}] : n \in 0..MaxSimilar }

\* the scores of GET /credibility/badge/{score}, in tenths
BadgeScores == 0..MaxBadgeScore

\* ArticleMetadata(...) as both endpoints build it: embedding defaults to None
ArticleMetadata(a) ==
  [id |-> a.id, source_type |-> a.source_type, source_bias |-> a.source_bias,
   source_credibility |-> a.source_credibility,
   published_at |-> a.published_at, aware |-> a.aware,
   embedding |-> NoEmbedding]

\* ------------------------------------------------------ embedding provider
Pad(v) == [i \in 1..EmbDim |-> IF i <= Len(v) THEN v[i] ELSE 0]

ZeroVector == [i \in 1..EmbDim |-> 0]          \* [0.0] * 1536

E_ref == Pad(<<1>>)
E_075 == Pad(<<3, 2, 1, 1, 1>>)                \* cosine 0.75 against E_ref
E_070 == Pad(<<7, 7, 1, 1>>)                   \* cosine 0.70 against E_ref

EmbeddingError == [kind |-> "error", vec |-> <<>>]
EmbeddingOk(v) == [kind |-> "ok", vec |-> v]

\* outcomes of openai.embeddings.create: an exception, or a vector
EmbeddingReplies ==
  {EmbeddingError} \cup {EmbeddingOk(v) : v \in {E_ref, E_075, E_070}}
FewEmbeddingReplies == {EmbeddingError, EmbeddingOk(E_ref)}

\* (variant: the handler catches JSON decoding errors only)
ExceptJsonErrorOnly(exc) == exc = "JSONDecodeError"

\* `except Exception`: the handler catches every exception class raised here
ExceptException(exc) == TRUE

\* the exception raised inside the try block of _get_embedding, if any
EmbeddingException(reply) ==
  IF reply.kind = "error" THEN "APIError" ELSE None

\* (variant: a reference vector instead of the zero vector after a failure)
_get_embedding_stale(reply) ==
  IF reply.kind = "error" THEN [raised |-> None, value |-> E_ref]
  ELSE [raised |-> None, value |-> reply.vec]

\* _get_embedding: the provider's vector, or the zero vector when the
\* exception is caught; `raised` is the exception that escapes, if any
_get_embedding(reply) ==
  LET exc == EmbeddingException(reply)
  IN  IF exc = None THEN [raised |-> None, value |-> reply.vec]
      ELSE IF ExceptException(exc) THEN [raised |-> None, value |-> ZeroVector]
      ELSE [raised |-> exc, value |-> NoEmbedding]

RECURSIVE DotUpTo(_, _, _)
DotUpTo(v1, v2, n) ==
  IF n = 0 THEN 0 ELSE v1[n] * v2[n] + DotUpTo(v1, v2, n - 1)

Dot(v1, v2) == DotUpTo(v1, v2, Len(v1))        \* np.dot
NormSq(v) == Dot(v, v)                         \* np.linalg.norm, squared

\* _cosine_similarity: 0.0 when a norm is zero, else dot / (norm1 * norm2),
\* kept as num / sqrt(densq)
_cosine_similarity(vec1, vec2) ==
  IF NormSq(vec1) = 0 \/ NormSq(vec2) = 0
    THEN [num |-> 0, densq |-> 1]
    ELSE [num |-> Dot(vec1, vec2), densq |-> NormSq(vec1) * NormSq(vec2)]

\* similarity >= similarity_threshold
ReachesThreshold(sim) ==
  /\ sim.num >= 0
  /\ THRESHOLD_DEN * THRESHOLD_DEN * sim.num * sim.num
       >= THRESHOLD_NUM * THRESHOLD_NUM * sim.densq

Abs(x) == IF x < 0 THEN 0 - x ELSE x

\* (variant: no self-exclusion)
SameIdNever(a, b) == FALSE

\* other.id == article.id
SameId(a, b) == a.id = b.id

\* (variant: the cached embedding is ignored)
NeedsEmbeddingAlways(a) == TRUE

\* (variant: a zero vector left by a failed lookup counts as missing)
NeedsEmbeddingAfterFailure(a) == a.embedding \in {NoEmbedding, ZeroVector}

\* article.embedding is None
NeedsEmbedding(a) == a.embedding = NoEmbedding

\* article.published_at - other.published_at raises TypeError when one
\* datetime is offset-naive and the other offset-aware
SubtractionRaises(a, b) == a.aware # b.aware
DatetimeTypeError ==
  "TypeError: can't subtract offset-naive and offset-aware datetimes"

\* (variant: time_diff >= time_window)
OutsideTimeWindowInclusive(a, b) ==
  Abs(a.published_at - b.published_at) >= TIME_WINDOW_DAYS

\* (variant: the difference is taken without abs())
OutsideTimeWindowOneSided(a, b) ==
  a.published_at - b.published_at > TIME_WINDOW_DAYS

\* time_diff > time_window
OutsideTimeWindow(a, b) == Abs(a.published_at - b.published_at) > TIME_WINDOW_DAYS

\* ------------------------------------------------------ factor calculators
\* `arts` is the list of ArticleMetadata objects, `similar` a sequence of
\* positions in it (object references)
\* (variant: no cap at 95)
_calculate_cross_coverage_score_uncapped(similar) ==
  LET num_sources == Len(similar) + 1
  IN  IF num_sources = 1 THEN 40
      ELSE IF num_sources = 2 THEN 60
      ELSE IF num_sources = 3 THEN 75
      ELSE IF num_sources = 4 THEN 85
      ELSE 85 + (num_sources - 4) * 2

_calculate_cross_coverage_score(similar) ==
  LET num_sources == Len(similar) + 1
  IN  IF num_sources = 1 THEN 40
      ELSE IF num_sources = 2 THEN 60
      ELSE IF num_sources = 3 THEN 75
      ELSE IF num_sources = 4 THEN 85
      ELSE IF 85 + (num_sources - 4) * 2 < 95
             THEN 85 + (num_sources - 4) * 2 ELSE 95

AllSources(article, similar) == <<article>> \o similar

\* (variant: only None is left out)
NotNone(bias) == bias # None

\* `if s.source_bias`: None and the empty string are both false
Truthy(bias) == bias \notin {None, ""}

_calculate_source_diversity(arts, article, similar) ==
  LET all_sources == AllSources(article, similar)
      source_types == {arts[all_sources[i]].source_type : i \in DOMAIN all_sources}
      biases == {b \in {arts[all_sources[i]].source_bias : i \in DOMAIN all_sources} :
                   Truthy(b)}
      \* (len / 3) * 100 * 0.6 = 20 * len ; (len / 4) * 100 * 0.4 = 10 * len
  IN  20 * Cardinality(source_types)
        + (IF biases # {} THEN 10 * Cardinality(biases) ELSE 20)

RECURSIVE SumCredibility(_, _, _)
SumCredibility(arts, all_sources, n) ==
  IF n = 0 THEN 0
  ELSE arts[all_sources[n]].source_credibility
         + SumCredibility(arts, all_sources, n - 1)

\* the mean of source_credibility, as num / den
_calculate_source_reputation(arts, article, similar) ==
  LET all_sources == AllSources(article, similar)
  IN  [num |-> SumCredibility(arts, all_sources, Len(all_sources)),
       den |-> Len(all_sources)]

\* ----------------------------------------------------- completion provider
Absent == [tag |-> "absent", val |-> 0]
Num(v) == [tag |-> "num", val |-> v]
Str == [tag |-> "str", val |-> 0]              \* a non-numeric string value
Null == [tag |-> "null", val |-> 0]
NoList == [tag |-> "absent", items |-> <<>>]   \* key not in the object
List(items) == [tag |-> "list", items |-> items]

\* a reply of anthropic.messages.create: an exception ("error") or a text.
\* A text is a JSON object, a JSON array or no JSON at all, possibly wrapped
\* in a markdown code fence.
ApiError ==
  [kind |-> "error", fenced |-> FALSE, body |-> "invalid",
   consistency_score |-> Absent, score |-> Absent, confidence |-> Absent,
   flags |-> NoList, strengths |-> NoList]
Text(fenced, body, cs, s, c, fl, st) ==
  [kind |-> "text", fenced |-> fenced, body |-> body,
   consistency_score |-> cs, score |-> s, confidence |-> c,
   flags |-> fl, strengths |-> st]
JsonObject(cs, s, c) ==
  Text(FALSE, "object", cs, s, c, List(<<"sensational">>), List(<<"cites sources">>))

GoodReply == JsonObject(Num(80), Num(93), Num(9))
HugeReply == JsonObject(Num(1000), Num(1000), Num(9))
NegativeReply == JsonObject(Num(0 - 500), Num(0 - 500), Num(9))
NotJson == Text(FALSE, "invalid", Absent, Absent, Absent, NoList, NoList)
FencedReply ==
  Text(TRUE, "object", Num(80), Num(93), Num(9),
       List(<<"sensational">>), List(<<"cites sources">>))
EmptyObject == Text(FALSE, "object", Absent, Absent, Absent, NoList, NoList)
NullFields == JsonObject(Null, Null, Null)
StringFields == JsonObject(Str, Str, Str)
JsonArray == Text(FALSE, "array", Absent, Absent, Absent, NoList, NoList)

CompletionReplies ==
  {ApiError, NotJson, FencedReply, EmptyObject, GoodReply, HugeReply, NegativeReply}
FewCompletionReplies == {ApiError, GoodReply}
\* the fact-consistency replies inside a pipeline run
FactReplies == {ApiError, NotJson, GoodReply}
\* the replies given to a method that is called on its own
UnitCompletionReplies == CompletionReplies \cup {NullFields, StringFields, JsonArray}

\* (variant: a code fence around the JSON text is tolerated)
JsonLoadsToleratesFence(reply) == reply.body = "invalid"

\* json.loads(response.content[0].text): raises unless the whole text is JSON
JsonLoadsRaises(reply) == reply.fenced \/ reply.body = "invalid"

\* the exception raised by float(result.get(key, default)) on parsed JSON
FloatException(reply, field) ==
  IF reply.body # "object" THEN "AttributeError"
  ELSE IF field.tag = "str" THEN "ValueError"
  ELSE IF field.tag = "null" THEN "TypeError"
  ELSE None

\* float(result.get(key, default))
FloatOf(field, default) == IF field.tag = "absent" THEN default ELSE field.val

\* result.get(key, [])
ListOf(field) == IF field.tag = "absent" THEN <<>> ELSE field.items

\* the exception raised inside a try block that calls the completion
\* provider and reads the given fields of its reply, if any
CompletionException(reply, fields) ==
  IF reply.kind = "error" THEN "APIError"
  ELSE IF JsonLoadsRaises(reply) THEN "JSONDecodeError"
  ELSE IF Len(fields) >= 1 /\ FloatException(reply, fields[1]) # None
    THEN FloatException(reply, fields[1])
  ELSE IF Len(fields) >= 2 /\ FloatException(reply, fields[2]) # None
    THEN FloatException(reply, fields[2])
  ELSE None

\* (variant: no early return for an empty list of similar articles)
_check_fact_consistency_unguarded(similar, reply) ==
  LET exc == CompletionException(reply, <<reply.consistency_score>>)
  IN  IF exc = None
        THEN [raised |-> None, called |-> TRUE,
              value |-> FloatOf(reply.consistency_score, NEUTRAL_SCORE)]
        ELSE [raised |-> None, value |-> NEUTRAL_SCORE, called |-> TRUE]

\* _check_fact_consistency: `called` tells whether the completion provider
\* was invoked, `raised` is the exception that escapes, if any
_check_fact_consistency(similar, reply) ==
  LET exc == CompletionException(reply, <<reply.consistency_score>>)
  IN  IF Len(similar) = 0
        THEN [raised |-> None, value |-> NEUTRAL_SCORE, called |-> FALSE]
      ELSE IF exc = None
        THEN [raised |-> None, called |-> TRUE,
              value |-> FloatOf(reply.consistency_score, NEUTRAL_SCORE)]
      ELSE IF ExceptException(exc)
        THEN [raised |-> None, value |-> NEUTRAL_SCORE, called |-> TRUE]
      ELSE [raised |-> exc, value |-> 0, called |-> TRUE]

\* (variant: the fallback carries the default confidence of a parsed reply)
FallbackWithDefaultConfidence ==
  [score |-> NEUTRAL_SCORE, confidence |-> DEFAULT_CONFIDENCE,
   flags |-> <<>>, strengths |-> <<>>]

Fallback ==
  [score |-> NEUTRAL_SCORE, confidence |-> FALLBACK_CONFIDENCE,
   flags |-> <<>>, strengths |-> <<>>]
NoVerification == [score |-> 0, confidence |-> 0, flags |-> <<>>, strengths |-> <<>>]

\* the dict built from a parsed reply
VerificationOf(reply) ==
  [score |-> FloatOf(reply.score, NEUTRAL_SCORE),
   confidence |-> FloatOf(reply.confidence, DEFAULT_CONFIDENCE),
   flags |-> ListOf(reply.flags), strengths |-> ListOf(reply.strengths)]

\* (variant: provider API errors are re-raised, parse errors fall back)
_ai_verification_reraising(reply) ==
  LET exc == CompletionException(reply, <<reply.score, reply.confidence>>)
  IN  IF exc = None
        THEN [raised |-> None, value |-> VerificationOf(reply)]
      ELSE IF exc = "APIError" THEN [raised |-> exc, value |-> NoVerification]
      ELSE [raised |-> None, value |-> Fallback]

\* _ai_verification: the dict read from the reply, else the fallback
_ai_verification(reply) ==
  LET exc == CompletionException(reply, <<reply.score, reply.confidence>>)
  IN  IF exc = None
        THEN [raised |-> None, value |-> VerificationOf(reply)]
      ELSE IF ExceptException(exc) THEN [raised |-> None, value |-> Fallback]
      ELSE [raised |-> exc, value |-> NoVerification]

\* ---------------------------------------------------------- score aggregator
\* sum(factors[key] * weights[key]) as num / den, den = 100 * number of sources
FinalScore(factors) ==
  LET n == factors.source_reputation.den
  IN  [num |-> n * ( W_cross_coverage * factors.cross_coverage
                   + W_source_diversity * factors.source_diversity
                   + W_fact_consistency * factors.fact_consistency
                   + W_ai_verification * factors.ai_verification )
               + W_source_reputation * factors.source_reputation.num,
       den |-> 100 * n]

\* final_score >= bound
AtLeast(q, bound) == q.num >= bound * q.den

VerificationStatus(final_score) ==
  IF AtLeast(final_score, 90) THEN "verified"
  ELSE IF AtLeast(final_score, 70) THEN "credible"
  ELSE IF AtLeast(final_score, 50) THEN "unverified"
  ELSE "questionable"

\* (variant: the score is cut to one decimal, not rounded)
TruncateToTenths(q) == (10 * q.num) \div q.den

\* round(final_score, 1), in tenths; an exact tie goes to the even neighbour
RoundToTenths(q) ==
  LET n == 10 * q.num
      lo == n \div q.den
      r == n - lo * q.den
  IN  IF 2 * r < q.den THEN lo
      ELSE IF 2 * r > q.den THEN lo + 1
      ELSE IF lo % 2 = 0 THEN lo ELSE lo + 1

\* (variant: the inconsistency phrase does not depend on num_similar)
_generate_explanation_always_inconsistent(factors, num_similar) ==
  LET rep == factors.source_reputation
      coverage == IF num_similar = 0
                    THEN <<"Single source - no cross-verification available">>
                  ELSE IF num_similar = 1 THEN <<"Covered by 2 sources">>
                  ELSE <<"Covered by " \o ToString(num_similar + 1) \o " sources">>
      diversity == IF factors.source_diversity >= 80
                     THEN <<"diverse source types">>
                   ELSE IF factors.source_diversity >= 60
                     THEN <<"moderate source diversity">>
                   ELSE <<"limited source diversity">>
      reputation == IF AtLeast(rep, 80) THEN <<"reputable sources">>
                    ELSE IF AtLeast(rep, 60)
                      THEN <<"moderately reputable sources">>
                    ELSE <<>>
      consistency == IF factors.fact_consistency >= 80
                       THEN <<"facts consistent across sources">>
                     ELSE IF factors.fact_consistency >= 60
                       THEN <<"mostly consistent facts">>
                     ELSE <<"some fact inconsistencies">>
  IN  coverage \o diversity \o reputation \o consistency

\* _generate_explanation: the phrases, in order, that " • ".join concatenates
\* (.capitalize() leaves the joined text as it is: the first phrase starts
\* with a capital and every other letter is already in lower case)
_generate_explanation(factors, num_similar) ==
  LET rep == factors.source_reputation
      coverage == IF num_similar = 0
                    THEN <<"Single source - no cross-verification available">>
                  ELSE IF num_similar = 1 THEN <<"Covered by 2 sources">>
                  ELSE <<"Covered by " \o ToString(num_similar + 1) \o " sources">>
      diversity == IF factors.source_diversity >= 80
                     THEN <<"diverse source types">>
                   ELSE IF factors.source_diversity >= 60
                     THEN <<"moderate source diversity">>
                   ELSE <<"limited source diversity">>
      reputation == IF AtLeast(rep, 80) THEN <<"reputable sources">>
                    ELSE IF AtLeast(rep, 60)
                      THEN <<"moderately reputable sources">>
                    ELSE <<>>
      consistency == IF factors.fact_consistency >= 80
                       THEN <<"facts consistent across sources">>
                     ELSE IF factors.fact_consistency >= 60
                       THEN <<"mostly consistent facts">>
                     ELSE IF num_similar > 0
                       THEN <<"some fact inconsistencies">>
                     ELSE <<>>
  IN  coverage \o diversity \o reputation \o consistency

\* steps 5.. of calculate_credibility: the CredibilityScore built from the
\* similar articles and the two remote results
CredibilityScore(arts, article, similar, fc_score, verification) ==
  LET factors ==
        [cross_coverage |-> _calculate_cross_coverage_score(similar),
         source_diversity |-> _calculate_source_diversity(arts, article, similar),
         source_reputation |-> _calculate_source_reputation(arts, article, similar),
         fact_consistency |-> fc_score,
         ai_verification |-> verification.score]
      final_score == FinalScore(factors)
  IN  [score |-> RoundToTenths(final_score),
       confidence |-> verification.confidence,
       factors |-> factors,
       similar_articles |-> [i \in DOMAIN similar |-> arts[similar[i]].id],
       source_count |-> Len(similar) + 1,
       source_diversity |-> factors.source_diversity,
       fact_consistency |-> fc_score,
       verification_status |-> VerificationStatus(final_score),
       explanation |-> _generate_explanation(factors, Len(similar))]

\* ---------------------------------------------------------------- endpoints
\* (variant: the thresholds belong to the lower band)
_get_badge_strict(score) ==
  IF score > 900 THEN [color |-> "green", text |-> "Verified"]
  ELSE IF score > 700 THEN [color |-> "blue", text |-> "Credible"]
  ELSE IF score > 500 THEN [color |-> "yellow", text |-> "Unverified"]
  ELSE [color |-> "red", text |-> "Questionable"]

\* _get_badge on a score in tenths
_get_badge(score) ==
  IF score >= 900 THEN [color |-> "green", text |-> "Verified"]
  ELSE IF score >= 700 THEN [color |-> "blue", text |-> "Credible"]
  ELSE IF score >= 500 THEN [color |-> "yellow", text |-> "Unverified"]
  ELSE [color |-> "red", text |-> "Questionable"]

CredibilityScoreResponse(article_id, res) ==
  [article_id |-> article_id, score |-> res.score,
   confidence |-> res.confidence, factors |-> res.factors,
   similar_articles |-> res.similar_articles,
   source_count |-> res.source_count,
   source_diversity |-> res.source_diversity,
   fact_consistency |-> res.fact_consistency,
   verification_status |-> res.verification_status,
   explanation |-> res.explanation,
   badge_color |-> _get_badge(res.score).color,
   badge_text |-> _get_badge(res.score).text]

\* (variant: a new instance for every caller)
get_credibility_scorer_fresh(scorer, constructed) ==
  [instance |-> <<constructed + 1>>, constructed |-> 1]

\* get_credibility_scorer: the global instance, constructed when it is None;
\* `constructed` is 1 when CredibilityScorer() was called
get_credibility_scorer(scorer, constructed) ==
  IF scorer = <<>>
    THEN [instance |-> <<constructed + 1>>, constructed |-> 1]
    ELSE [instance |-> scorer, constructed |-> 0]

RECURSIVE SelectOthers(_, _, _)
SelectOthers(arts, article, n) ==
  IF n = 0 THEN <<>>
  ELSE IF arts[n].id # arts[article].id
    THEN Append(SelectOthers(arts, article, n - 1), n)
    ELSE SelectOthers(arts, article, n - 1)

\* (variant: the other objects, whatever their ids)
OtherArticlesByPosition(arts, article) ==
  SelectSeq([i \in 1..Len(arts) |-> i], LAMBDA j : j # article)

\* other_articles = [a for a in articles if a.id != article.id]
OtherArticles(arts, article) == SelectOthers(arts, article, Len(arts))

\* related = [ArticleMetadata(...) for a in request.related_articles]
RelatedArticles(arts) == [i \in 1..(Len(arts) - 1) |-> i + 1]

\* ------------------------------------------------------------------- state
VARIABLES
  entry,      \* what the client invoked: "calculate", "batch" (the two POST
              \* endpoints), "check" (_check_fact_consistency called alone),
              \* a function called alone, or a request to another service
  request,    \* the ArticleInput list of the request (for "calculate":
              \* request.article followed by request.related_articles)
  articles,   \* the ArticleMetadata objects built from the request
  pc,         \* position of the handler / of calculate_credibility
  cur,        \* `article`: position in `articles` of the article being scored
  pool,       \* `all_articles` of the running calculate_credibility call
  k,          \* position of `other` in the loop of _find_similar_articles
  similar,    \* `similar`: positions of the articles found similar so far
  fact_consistency_score,
  verification_result,
  result,     \* <<CredibilityScore>> once calculate_credibility returned
  raised,     \* the exception leaving calculate_credibility, or None
  scores,     \* `scores` of the batch handler
  failed,     \* `failed` of the batch handler
  response,   \* the HTTP response
  log,        \* provider calls made so far: [call, run, obj, reply]
  argument,   \* the argument of a function that is called on its own
  value,      \* <<its return value>> once it returned
  _scorer,    \* the module global: <<>> (None) or <<n>>, the n-th instance
  constructions,  \* number of CredibilityScorer() constructions so far
  flights,    \* the /calculate requests served concurrently, each with
              \* the local variables of its handler
  attempt_number,  \* attempts the retry decorator has made in this call
  retries     \* self.request.retries of the summarization task

vars == <<entry, request, articles, pc, cur, pool, k, similar,
          fact_consistency_score, verification_result, result, raised,
          scores, failed, response, log, argument, value,
          _scorer, constructions, flights, attempt_number, retries>>

NoResponse ==
  [status |-> 0, detail |-> None, scores |-> <<>>, processed |-> 0, failed |-> 0]

InitCommon ==
  /\ request \in Requests
  /\ articles = <<>>
  /\ pc = "start"
  /\ cur = 0
  /\ pool = <<>>
  /\ k = 0
  /\ similar = <<>>
  /\ fact_consistency_score = 0
  /\ verification_result = NoVerification
  /\ result = <<>>
  /\ raised = None
  /\ scores = <<>>
  /\ failed = 0
  /\ response = NoResponse
  /\ log = <<>>
  /\ argument = <<>>
  /\ value = <<>>
  /\ _scorer = <<>>
  /\ constructions = 0
  /\ flights = <<>>
  /\ attempt_number = 0
  /\ retries = 0

Init == entry \in {"calculate", "check"} /\ InitCommon

InitBatch == entry = "batch" /\ InitCommon

\* a function called on its own, with its argument
InitUnits ==
  /\ entry \in {"cross_coverage", "source_diversity", "badge"}
  /\ request \in (IF entry = "source_diversity" THEN SourceLists ELSE {<<>>})
  /\ argument \in (IF entry = "cross_coverage" THEN SimilarLists
                    ELSE IF entry = "badge" THEN {<<s>> : s \in BadgeScores}
                    ELSE {<<>>})
  /\ value = <<>>
  /\ _scorer = <<>>
  /\ constructions = 0
  /\ flights = <<>>
  /\ attempt_number = 0
  /\ retries = 0
  /\ articles = <<>>
  /\ pc = "start"
  /\ cur = 0
  /\ pool = <<>>
  /\ k = 0
  /\ similar = <<>>
  /\ fact_consistency_score = 0
  /\ verification_result = NoVerification
  /\ result = <<>>
  /\ raised = None
  /\ scores = <<>>
  /\ failed = 0
  /\ response = NoResponse
  /\ log = <<>>

Objects(req) == [i \in DOMAIN req |-> ArticleMetadata(req[i])]

Call(name, obj, reply) ==
  [call |-> name, run |-> cur, obj |-> obj, reply |-> reply]

\* (variant: the AI verification is issued before the clustering step)
EnterPipelineAtVerification(article, all_articles) ==
  /\ cur' = article
  /\ pool' = all_articles
  /\ k' = 1
  /\ similar' = <<>>
  /\ fact_consistency_score' = 0
  /\ verification_result' = NoVerification
  /\ result' = <<>>
  /\ raised' = None
  /\ pc' = "verify"

\* entry of calculate_credibility(article, all_articles)
EnterPipeline(article, all_articles) ==
  /\ cur' = article
  /\ pool' = all_articles
  /\ k' = 1
  /\ similar' = <<>>
  /\ fact_consistency_score' = 0
  /\ verification_result' = NoVerification
  /\ result' = <<>>
  /\ raised' = None
  /\ pc' = "embed_article"

\* POST /credibility/calculate up to the call of calculate_credibility
PostCalculate ==
  /\ pc = "start" /\ entry = "calculate"
  /\ _scorer' = get_credibility_scorer(_scorer, constructions).instance
  /\ constructions' =
       constructions + get_credibility_scorer(_scorer, constructions).constructed
  /\ articles' = Objects(request)
  /\ EnterPipeline(1, RelatedArticles(request))
  /\ UNCHANGED <<flights, attempt_number, retries>>
  /\ UNCHANGED <<argument, value, entry, request, scores, failed, response, log>>

\* _find_similar_articles, before the loop: the article's own embedding
EmbedArticle(replies) ==
  /\ pc = "embed_article"
  /\ IF NeedsEmbedding(articles[cur])
       THEN \E reply \in replies :
              LET r == _get_embedding(reply)
              IN  /\ log' = Append(log, Call("embedding", cur, reply))
                  /\ IF r.raised # None
                       THEN /\ raised' = r.raised
                            /\ pc' = "raised"
                            /\ UNCHANGED articles
                       ELSE /\ articles' = [articles EXCEPT ![cur].embedding = r.value]
                            /\ pc' = "compare"
                            /\ UNCHANGED raised
       ELSE /\ pc' = "compare"
            /\ UNCHANGED <<articles, log, raised>>
  /\ UNCHANGED <<_scorer, constructions, flights, attempt_number, retries>>
  /\ UNCHANGED <<argument, value, entry, request, cur, pool, k, similar, fact_consistency_score,
                 verification_result, result, scores, failed, response>>

\* one iteration of the loop of _find_similar_articles
CompareOther(replies) ==
  /\ pc = "compare" /\ k <= Len(pool)
  /\ LET other == pool[k]
         skip == /\ k' = k + 1
                 /\ UNCHANGED <<articles, similar, log, pc, raised>>
     IN  IF SameId(articles[other], articles[cur]) THEN skip
         ELSE IF SubtractionRaises(articles[cur], articles[other])
           THEN /\ pc' = "raised"
                /\ raised' = DatetimeTypeError
                /\ UNCHANGED <<articles, similar, log, k>>
         ELSE IF OutsideTimeWindow(articles[cur], articles[other]) THEN skip
         ELSE \E reply \in replies :
                LET fetch == NeedsEmbedding(articles[other])
                    r == IF fetch THEN _get_embedding(reply)
                         ELSE [raised |-> None, value |-> articles[other].embedding]
                    similarity == _cosine_similarity(articles[cur].embedding, r.value)
                IN  /\ log' = IF fetch
                                THEN Append(log, Call("embedding", other, reply))
                                ELSE log
                    /\ IF r.raised # None
                         THEN /\ raised' = r.raised
                              /\ pc' = "raised"
                              /\ UNCHANGED <<articles, similar, k>>
                         ELSE /\ articles' = [articles EXCEPT ![other].embedding = r.value]
                              /\ similar' = IF ReachesThreshold(similarity)
                                              THEN Append(similar, other)
                                              ELSE similar
                              /\ k' = k + 1
                              /\ UNCHANGED <<pc, raised>>
  /\ UNCHANGED <<_scorer, constructions, flights, attempt_number, retries>>
  /\ UNCHANGED <<argument, value, entry, request, cur, pool, fact_consistency_score,
                 verification_result, result, scores, failed, response>>

\* calculate_credibility, step 3: fact consistency only with similar articles
CheckFacts(replies) ==
  /\ pc = "compare" /\ k > Len(pool)
  /\ IF Len(similar) > 0
       THEN \E reply \in replies :
              LET r == _check_fact_consistency(similar, reply)
              IN  /\ log' = IF r.called
                              THEN Append(log, Call("fact_consistency", cur, reply))
                              ELSE log
                  /\ IF r.raised # None
                       THEN /\ raised' = r.raised
                            /\ pc' = "raised"
                            /\ UNCHANGED fact_consistency_score
                       ELSE /\ fact_consistency_score' = r.value
                            /\ pc' = "verify"
                            /\ UNCHANGED raised
       ELSE /\ fact_consistency_score' = 0
            /\ pc' = "verify"
            /\ UNCHANGED <<log, raised>>
  /\ UNCHANGED <<_scorer, constructions, flights, attempt_number, retries>>
  /\ UNCHANGED <<argument, value, entry, request, articles, cur, pool, k, similar,
                 verification_result, result, scores, failed, response>>

\* (variant: a failed AI verification is attempted a second time)
VerifyWithRetry(replies) ==
  /\ pc = "verify"
  /\ \E reply \in replies :
       LET r == _ai_verification(reply)
           again == /\ reply.kind = "error"
                    /\ ~\E i \in DOMAIN log :
                          log[i].call = "ai_verification" /\ log[i].run = cur
       IN  /\ log' = Append(log, Call("ai_verification", cur, reply))
           /\ verification_result' = r.value
           /\ pc' = IF again THEN "verify" ELSE "aggregate"
           /\ UNCHANGED raised
  /\ UNCHANGED <<_scorer, constructions, flights, attempt_number, retries>>
  /\ UNCHANGED <<argument, value, entry, request, articles, cur, pool, k, similar,
                 fact_consistency_score, result, scores, failed, response>>

\* calculate_credibility, step 4
Verify(replies) ==
  /\ pc = "verify"
  /\ \E reply \in replies :
       LET r == _ai_verification(reply)
       IN  /\ log' = Append(log, Call("ai_verification", cur, reply))
           /\ IF r.raised # None
                THEN /\ raised' = r.raised
                     /\ pc' = "raised"
                     /\ UNCHANGED verification_result
                ELSE /\ verification_result' = r.value
                     /\ pc' = "aggregate"
                     /\ UNCHANGED raised
  /\ UNCHANGED <<_scorer, constructions, flights, attempt_number, retries>>
  /\ UNCHANGED <<argument, value, entry, request, articles, cur, pool, k, similar,
                 fact_consistency_score, result, scores, failed, response>>

\* (variant: the score is also stored on the article object)
AggregateStoringScore ==
  /\ pc = "aggregate"
  /\ result' = <<CredibilityScore(articles, cur, similar,
                                  fact_consistency_score, verification_result)>>
  /\ articles' = [articles EXCEPT ![cur].source_credibility = result'[1].score]
  /\ pc' = "returned"
  /\ UNCHANGED <<_scorer, constructions, flights, attempt_number, retries>>
  /\ UNCHANGED <<argument, value, entry, request, cur, pool, k, similar,
                 fact_consistency_score, verification_result, raised,
                 scores, failed, response, log>>

\* calculate_credibility, step 5 to the return
Aggregate ==
  /\ pc = "aggregate"
  /\ result' = <<CredibilityScore(articles, cur, similar,
                                  fact_consistency_score, verification_result)>>
  /\ pc' = "returned"
  /\ UNCHANGED <<_scorer, constructions, flights, attempt_number, retries>>
  /\ UNCHANGED <<argument, value, entry, request, articles, cur, pool, k, similar,
                 fact_consistency_score, verification_result, raised,
                 scores, failed, response, log>>

\* POST /credibility/calculate after calculate_credibility returned
CalculateRespond ==
  /\ pc = "returned" /\ entry = "calculate"
  /\ response' = [status |-> 200, detail |-> None,
                  scores |-> <<CredibilityScoreResponse(request[1].id, result[1])>>,
                  processed |-> 1, failed |-> 0]
  /\ pc' = "done"
  /\ UNCHANGED <<_scorer, constructions, flights, attempt_number, retries>>
  /\ UNCHANGED <<argument, value, entry, request, articles, cur, pool, k, similar,
                 fact_consistency_score, verification_result, result, raised,
                 scores, failed, log>>

\* POST /credibility/calculate: except Exception -> HTTPException(500, str(e))
CalculateError ==
  /\ pc = "raised" /\ entry = "calculate"
  /\ response' = [NoResponse EXCEPT !.status = 500, !.detail = raised]
  /\ pc' = "done"
  /\ UNCHANGED <<_scorer, constructions, flights, attempt_number, retries>>
  /\ UNCHANGED <<argument, value, entry, request, articles, cur, pool, k, similar,
                 fact_consistency_score, verification_result, result, raised,
                 scores, failed, log>>

\* _check_fact_consistency(article, similar_articles) called on its own, with
\* the first object as the article and the others as its similar articles
CallCheckFactConsistency(replies) ==
  /\ pc = "start" /\ entry = "check"
  /\ articles' = Objects(request)
  /\ cur' = 1
  /\ similar' = RelatedArticles(request)
  /\ \E reply \in replies :
       LET r == _check_fact_consistency(RelatedArticles(request), reply)
       IN  /\ fact_consistency_score' = r.value
           /\ raised' = r.raised
           /\ log' = IF r.called
                       THEN Append(log, [call |-> "fact_consistency", run |-> 1,
                                         obj |-> 1, reply |-> reply])
                       ELSE log
  /\ pc' = "done"
  /\ UNCHANGED <<_scorer, constructions, flights, attempt_number, retries>>
  /\ UNCHANGED <<argument, value, entry, request, pool, k, verification_result, result,
                 scores, failed, response>>

\* the batch loop header: the next article's pool, or the response
BatchAdvance(next, new_scores, new_failed) ==
  IF next <= Len(articles')
    THEN /\ EnterPipeline(next, OtherArticles(articles', next))
         /\ UNCHANGED response
    ELSE /\ response' = [status |-> 200, detail |-> None, scores |-> new_scores,
                         processed |-> Len(new_scores), failed |-> new_failed]
         /\ pc' = "done"
         /\ raised' = None
         /\ UNCHANGED <<cur, pool, k, similar, fact_consistency_score,
                        verification_result, result>>

\* POST /credibility/batch up to the first calculate_credibility call
PostBatch ==
  /\ pc = "start" /\ entry = "batch"
  /\ _scorer' = get_credibility_scorer(_scorer, constructions).instance
  /\ constructions' =
       constructions + get_credibility_scorer(_scorer, constructions).constructed
  /\ articles' = Objects(request)
  /\ scores' = <<>>
  /\ failed' = 0
  /\ BatchAdvance(1, <<>>, 0)
  /\ UNCHANGED <<flights, attempt_number, retries>>
  /\ UNCHANGED <<argument, value, entry, request, log>>

\* batch loop body after calculate_credibility returned: scores.append(...)
BatchAppend ==
  /\ pc = "returned" /\ entry = "batch"
  /\ scores' = Append(scores, CredibilityScoreResponse(articles[cur].id, result[1]))
  /\ UNCHANGED <<articles, failed>>
  /\ BatchAdvance(cur + 1, scores', failed)
  /\ UNCHANGED <<_scorer, constructions, flights, attempt_number, retries>>
  /\ UNCHANGED <<argument, value, entry, request, log>>

\* (variant: the failure is not counted)
BatchExceptUncounted ==
  /\ pc = "raised" /\ entry = "batch"
  /\ UNCHANGED <<articles, scores, failed>>
  /\ BatchAdvance(cur + 1, scores, failed)
  /\ UNCHANGED <<_scorer, constructions, flights, attempt_number, retries>>
  /\ UNCHANGED <<argument, value, entry, request, log>>

\* batch loop body: except Exception -> failed += 1; continue
BatchExcept ==
  /\ pc = "raised" /\ entry = "batch"
  /\ failed' = failed + 1
  /\ UNCHANGED <<articles, scores>>
  /\ BatchAdvance(cur + 1, scores, failed')
  /\ UNCHANGED <<_scorer, constructions, flights, attempt_number, retries>>
  /\ UNCHANGED <<argument, value, entry, request, log>>

\* ------------------------------------------------- concurrent requests
\* POST /credibility/calculate served for several clients on one event
\* loop; a handler can be suspended at each await, so the steps of the
\* requests interleave.  flights[r] holds the local variables of request r.
FlightIds == 1..MaxRequests

\* the requests of the concurrent clients: target followed by related
FlightInputs ==
  {req \in Requests :
     \/ Len(req) = 1 /\ req[1].id = "a"
     \/ Len(req) = 2 /\ req[1].id = "b" /\ req[2].id = "a"}

NewFlight(req) ==
  [input |-> req, pc |-> "start", scorer |-> <<>>, articles |-> <<>>,
   pool |-> <<>>, k |-> 0, similar |-> <<>>, fact_consistency_score |-> 0,
   verification_result |-> NoVerification, result |-> <<>>,
   response |-> NoResponse, raised |-> None, replies |-> <<>>]

InitConcurrent ==
  /\ entry = "concurrent"
  /\ attempt_number = 0
  /\ retries = 0
  /\ flights \in [FlightIds -> {NewFlight(req) : req \in FlightInputs}]
  /\ _scorer = <<>>
  /\ constructions = 0
  /\ request = <<>>
  /\ articles = <<>>
  /\ pc = "start"
  /\ cur = 0
  /\ pool = <<>>
  /\ k = 0
  /\ similar = <<>>
  /\ fact_consistency_score = 0
  /\ verification_result = NoVerification
  /\ result = <<>>
  /\ raised = None
  /\ scores = <<>>
  /\ failed = 0
  /\ response = NoResponse
  /\ log = <<>>
  /\ argument = <<>>
  /\ value = <<>>

\* a step of request r touches its own local variables only
FlightFrame ==
  UNCHANGED <<entry, request, articles, pc, cur, pool, k, similar,
              fact_consistency_score, verification_result, result, raised,
              scores, failed, response, log, argument, value,
              attempt_number, retries>>

\* the handler up to the call of calculate_credibility
FlightStart(r) ==
  /\ flights[r].pc = "start"
  /\ LET got == get_credibility_scorer(_scorer, constructions)
     IN  /\ _scorer' = got.instance
         /\ constructions' = constructions + got.constructed
         /\ flights' = [flights EXCEPT ![r] =
              [@ EXCEPT !.scorer = got.instance,
                        !.articles = Objects(flights[r].input),
                        !.pool = RelatedArticles(flights[r].input),
                        !.k = 1,
                        !.pc = "embed_article"]]
  /\ FlightFrame

\* _find_similar_articles, before the loop
FlightEmbedArticle(r) ==
  /\ flights[r].pc = "embed_article"
  /\ LET f == flights[r]
     IN  IF NeedsEmbedding(f.articles[1])
           THEN \E reply \in FewEmbeddingReplies :
                  flights' = [flights EXCEPT ![r] =
                    [@ EXCEPT !.articles[1].embedding = _get_embedding(reply).value,
                              !.replies = Append(@, reply),
                              !.pc = "compare"]]
           ELSE flights' = [flights EXCEPT ![r].pc = "compare"]
  /\ UNCHANGED <<_scorer, constructions>>
  /\ FlightFrame

\* one iteration of the loop of _find_similar_articles
FlightCompareOther(r) ==
  /\ flights[r].pc = "compare" /\ flights[r].k <= Len(flights[r].pool)
  /\ LET f == flights[r]
         other == f.pool[f.k]
     IN  IF SameId(f.articles[other], f.articles[1])
              \/ ( /\ ~SubtractionRaises(f.articles[1], f.articles[other])
                   /\ OutsideTimeWindow(f.articles[1], f.articles[other]) )
           THEN flights' = [flights EXCEPT ![r].k = @ + 1]
         ELSE IF SubtractionRaises(f.articles[1], f.articles[other])
           THEN flights' = [flights EXCEPT ![r] =
                  [@ EXCEPT !.raised = DatetimeTypeError, !.pc = "raised"]]
         ELSE \E reply \in FewEmbeddingReplies :
                LET fetch == NeedsEmbedding(f.articles[other])
                    vec == IF fetch THEN _get_embedding(reply).value
                           ELSE f.articles[other].embedding
                    similarity == _cosine_similarity(f.articles[1].embedding, vec)
                IN  flights' = [flights EXCEPT ![r] =
                      [@ EXCEPT !.articles[other].embedding = vec,
                                !.replies = IF fetch THEN Append(@, reply) ELSE @,
                                !.similar = IF ReachesThreshold(similarity)
                                              THEN Append(@, other) ELSE @,
                                !.k = @ + 1]]
  /\ UNCHANGED <<_scorer, constructions>>
  /\ FlightFrame

\* calculate_credibility, step 3
FlightCheckFacts(r) ==
  /\ flights[r].pc = "compare" /\ flights[r].k > Len(flights[r].pool)
  /\ LET f == flights[r]
     IN  IF Len(f.similar) > 0
           THEN \E reply \in FewCompletionReplies :
                  flights' = [flights EXCEPT ![r] =
                    [@ EXCEPT !.fact_consistency_score =
                                _check_fact_consistency(f.similar, reply).value,
                              !.replies = Append(@, reply),
                              !.pc = "verify"]]
           ELSE flights' = [flights EXCEPT ![r] =
                  [@ EXCEPT !.fact_consistency_score = 0, !.pc = "verify"]]
  /\ UNCHANGED <<_scorer, constructions>>
  /\ FlightFrame

\* calculate_credibility, step 4
FlightVerify(r) ==
  /\ flights[r].pc = "verify"
  /\ \E reply \in FewCompletionReplies :
       flights' = [flights EXCEPT ![r] =
         [@ EXCEPT !.verification_result = _ai_verification(reply).value,
                   !.replies = Append(@, reply),
                   !.pc = "aggregate"]]
  /\ UNCHANGED <<_scorer, constructions>>
  /\ FlightFrame

\* calculate_credibility, step 5 to the return, and the handler's response
FlightRespond(r) ==
  /\ flights[r].pc = "aggregate"
  /\ LET f == flights[r]
         res == CredibilityScore(f.articles, 1, f.similar,
                                 f.fact_consistency_score, f.verification_result)
     IN  flights' = [flights EXCEPT ![r] =
           [@ EXCEPT !.result = <<res>>,
                     !.response =
                       [status |-> 200, detail |-> None,
                        scores |-> <<CredibilityScoreResponse(f.input[1].id, res)>>,
                        processed |-> 1, failed |-> 0],
                     !.pc = "done"]]
  /\ UNCHANGED <<_scorer, constructions>>
  /\ FlightFrame

\* the handler's except branch: HTTPException(500, str(e))
FlightError(r) ==
  /\ flights[r].pc = "raised"
  /\ flights' = [flights EXCEPT ![r] =
       [@ EXCEPT !.response =
                   [NoResponse EXCEPT !.status = 500, !.detail = flights[r].raised],
                 !.pc = "done"]]
  /\ UNCHANGED <<_scorer, constructions>>
  /\ FlightFrame

\* _calculate_cross_coverage_score(similar_articles) called on its own
CallCrossCoverage ==
  /\ pc = "start" /\ entry = "cross_coverage"
  /\ value' = <<_calculate_cross_coverage_score(argument)>>
  /\ pc' = "done"
  /\ UNCHANGED <<_scorer, constructions, flights, attempt_number, retries>>
  /\ UNCHANGED <<argument, entry, request, articles, cur, pool, k, similar,
                 fact_consistency_score, verification_result, result, raised,
                 scores, failed, response, log>>

\* _calculate_source_diversity(article, similar_articles) called on its own,
\* with the first object as the article and the others as its similar articles
CallSourceDiversity ==
  /\ pc = "start" /\ entry = "source_diversity"
  /\ articles' = Objects(request)
  /\ cur' = 1
  /\ similar' = RelatedArticles(request)
  /\ value' = <<_calculate_source_diversity(articles', 1, RelatedArticles(request))>>
  /\ pc' = "done"
  /\ UNCHANGED <<_scorer, constructions, flights, attempt_number, retries>>
  /\ UNCHANGED <<argument, entry, request, pool, k, fact_consistency_score,
                 verification_result, result, raised, scores, failed,
                 response, log>>

\* GET /credibility/badge/{score}
GetBadge ==
  /\ pc = "start" /\ entry = "badge"
  /\ value' = <<_get_badge(argument[1])>>
  /\ pc' = "done"
  /\ UNCHANGED <<_scorer, constructions, flights, attempt_number, retries>>
  /\ UNCHANGED <<argument, entry, request, articles, cur, pool, k, similar,
                 fact_consistency_score, verification_result, result, raised,
                 scores, failed, response, log>>

\* ============================== summarizer, translator, moderator, task
\* stop_after_attempt(3) of the retry decorators; max_retries of the task
STOP_AFTER_ATTEMPT == 3
MAX_RETRIES == 3

AIProvider == {"claude", "openai", "gemini"}

\* the exceptions of the anthropic and openai SDKs for a failed call; in both
\* SDKs APITimeoutError and RateLimitError are subclasses of APIError
ProviderApiErrors == {"APIError", "APITimeoutError", "RateLimitError"}

\* a reply of messages.create / chat.completions.create: an exception, a
\* response without content, or a text.  A text is a sequence of tokens, " "
\* standing for whitespace; it may start with the "[SUMMARY]" marker and end
\* with a "[CATEGORY]" section naming a category.
ProviderError(e) ==
  [kind |-> "error", error |-> e, marked |-> FALSE, body |-> <<>>,
   category |-> None]
NoContent ==
  [kind |-> "empty", error |-> None, marked |-> FALSE, body |-> <<>>,
   category |-> None]
Content(marked, body, category) ==
  [kind |-> "text", error |-> None, marked |-> marked, body |-> body,
   category |-> category]

PlainContent == Content(FALSE, <<" ", "flood", " ", "hits", " ">>, None)
MarkedContent == Content(TRUE, <<" ", "cup", " ", "final", " ">>, "sports")
OddContent == Content(FALSE, <<"gala", " ">>, "gossip")

ServiceReplies ==
  {ProviderError(e) : e \in ProviderApiErrors}
    \cup {NoContent, PlainContent, MarkedContent, OddContent}
TaskReplies == {ProviderError("RateLimitError"), MarkedContent}

\* the text of a reply, token by token
ContentText(reply) ==
  (IF reply.marked THEN <<"[SUMMARY]">> ELSE <<>>)
    \o reply.body
    \o (IF reply.category # None THEN <<"[CATEGORY]", reply.category>>
                                 ELSE <<>>)

\* str.strip()
RECURSIVE LStrip(_)
LStrip(text) ==
  IF text # <<>> /\ Head(text) = " " THEN LStrip(Tail(text)) ELSE text
RECURSIVE RStrip(_)
RStrip(text) ==
  IF text # <<>> /\ text[Len(text)] = " "
  THEN RStrip(SubSeq(text, 1, Len(text) - 1)) ELSE text
Strip(text) == RStrip(LStrip(text))

valid_categories ==
  {"politics", "sports", "entertainment", "business", "technology", "health",
   "education", "international", "opinion", "general"}

\* _parse_response(content, ...) of a text without a "[KEY POINTS]" section;
\* keywords is what _detect_category_from_keywords finds in the article
_parse_response(reply, keywords) ==
  LET extracted == IF reply.category \in valid_categories
                   THEN reply.category ELSE None
  IN  [summary |-> IF reply.marked THEN Strip(reply.body)
                                  ELSE Strip(ContentText(reply)),
       key_points |-> None,
       category |-> IF extracted = None \/ extracted = "general"
                    THEN keywords ELSE extracted]

\* one run of the body of _summarize_with_claude / _summarize_with_openai /
\* _summarize_with_gemini: whether the provider was called, the exception
\* raised (or None) and the value returned
NoCall(exception) == [called |-> FALSE, raised |-> exception, value |-> <<>>]
Failure(exception) == [called |-> TRUE, raised |-> exception, value |-> <<>>]
Success(v) == [called |-> TRUE, raised |-> None, value |-> <<v>>]

_summarize_with(req, reply) ==
  IF ~req.configured THEN NoCall("ValueError")
  ELSE IF reply.kind = "error" THEN Failure(reply.error)
  ELSE IF reply.kind = "empty" THEN Failure("IndexError")
  ELSE Success(_parse_response(reply, req.keywords))

\* one run of the body of _translate_with_claude / _translate_with_openai
_translate_with(req, reply) ==
  IF ~req.configured THEN NoCall("ValueError")
  ELSE IF reply.kind = "error" THEN Failure(reply.error)
  ELSE IF reply.kind = "empty" THEN Failure("IndexError")
  ELSE Success(Strip(ContentText(reply)))

\* retry_if_exception_type(...) of the decorator of the provider's method;
\* _summarize_with_gemini is not decorated
RetriedExceptions(provider) ==
  IF provider \in {"claude", "openai"} THEN ProviderApiErrors ELSE {}

\* (variant: the decorator retries whatever the method raises)
retry_any(retried, stop, outcome, attempt) ==
  IF outcome.raised = None THEN "return"
  ELSE IF attempt >= stop THEN "RetryError"
  ELSE "retry"

\* what @retry does with the outcome of attempt number `attempt`: return its
\* value, raise its exception, try again, or raise RetryError
retry(retried, stop, outcome, attempt) ==
  IF outcome.raised = None THEN "return"
  ELSE IF outcome.raised \notin retried THEN "raise"
  ELSE IF attempt >= stop THEN "RetryError"
  ELSE "retry"

ServiceRequests ==
  [provider : AIProvider, configured : BOOLEAN,
   keywords : {"general", "politics"}, strict_mode : {FALSE}]
TranslateRequests ==
  [provider : AIProvider, configured : BOOLEAN,
   keywords : {"general"}, strict_mode : {FALSE}]
ModerationRequests ==
  [provider : {"claude"}, configured : BOOLEAN,
   keywords : {"general"}, strict_mode : BOOLEAN]

\* a provider call as recorded in `log` by the three services
Attempt(reply) ==
  [call |-> "completion", execution |-> retries + 1,
   attempt |-> attempt_number + 1, reply |-> reply]

\* SummarizeResponse (the lengths of the original text and the timing are not
\* modelled)
SummarizeResponse(req, parsed) ==
  [summary |-> parsed.summary, key_points |-> parsed.key_points,
   category |-> parsed.category,
   word_count |-> Cardinality({i \in DOMAIN parsed.summary :
                                 parsed.summary[i] # " "}),
   provider |-> req.provider]

TranslateResponse(req, translated_content) ==
  [translated_content |-> translated_content, provider |-> req.provider,
   confidence |-> None]

\* what an attempt leaves behind: the decorator's decision on its outcome
Decide(decision, outcome, returned) ==
  /\ attempt_number' = attempt_number + 1
  /\ CASE decision = "return" ->
            value' = <<returned>> /\ pc' = "returned" /\ UNCHANGED raised
       [] decision = "raise" ->
            raised' = outcome.raised /\ pc' = "raised" /\ UNCHANGED value
       [] decision = "RetryError" ->
            raised' = "RetryError" /\ pc' = "raised" /\ UNCHANGED value
       [] OTHER -> UNCHANGED <<value, raised, pc>>

\* SummarizerService.summarize, one attempt of the provider's method at a
\* time; called by POST /summarize and by process_summarization_task
Summarize ==
  /\ entry \in {"summarize", "summarize_async"} /\ pc = "start"
  /\ \E reply \in (IF entry = "summarize" THEN ServiceReplies
                                          ELSE TaskReplies) :
       LET req == argument[1]
           outcome == _summarize_with(req, reply)
           decision == retry(RetriedExceptions(req.provider),
                             STOP_AFTER_ATTEMPT, outcome, attempt_number + 1)
       IN  /\ log' = IF outcome.called THEN Append(log, Attempt(reply))
                                       ELSE log
           /\ Decide(decision, outcome,
                     IF outcome.raised = None
                     THEN SummarizeResponse(req, outcome.value[1]) ELSE None)
  /\ UNCHANGED <<_scorer, constructions, flights, retries>>
  /\ UNCHANGED <<argument, entry, request, articles, cur, pool, k, similar,
                 fact_consistency_score, verification_result, result,
                 scores, failed, response>>

\* the worker runs process_summarization_task again after any exception:
\* autoretry_for = (Exception,), retry_kwargs = {"max_retries": 3}
RetryTask ==
  /\ entry = "summarize_async" /\ pc = "raised" /\ retries < MAX_RETRIES
  /\ retries' = retries + 1
  /\ attempt_number' = 0
  /\ raised' = None
  /\ pc' = "start"
  /\ UNCHANGED <<_scorer, constructions, flights>>
  /\ UNCHANGED <<argument, value, entry, request, articles, cur, pool, k,
                 similar, fact_consistency_score, verification_result, result,
                 scores, failed, response, log>>

\* TranslatorService.translate, one attempt of the provider's method at a time
Translate ==
  /\ entry = "translate" /\ pc = "start"
  /\ \E reply \in ServiceReplies :
       LET req == argument[1]
           outcome == IF req.provider = "gemini" THEN NoCall("ValueError")
                      ELSE _translate_with(req, reply)
           decision == retry(RetriedExceptions(req.provider),
                             STOP_AFTER_ATTEMPT, outcome, attempt_number + 1)
       IN  /\ log' = IF outcome.called THEN Append(log, Attempt(reply))
                                       ELSE log
           /\ Decide(decision, outcome,
                     IF outcome.raised = None
                     THEN TranslateResponse(req, outcome.value[1]) ELSE None)
  /\ UNCHANGED <<_scorer, constructions, flights, retries>>
  /\ UNCHANGED <<argument, entry, request, articles, cur, pool, k, similar,
                 fact_consistency_score, verification_result, result,
                 scores, failed, response>>

\* ---- moderation
\* a reply to the moderator: an exception, a response without content, or a
\* text: a JSON object with "categories" and "recommended_action", a JSON
\* array, or no JSON at all, possibly inside a markdown code fence ("json":
\* opened with the json tag, "plain": without, "none": no fence).
\* Confidences are in hundredths.
ModerationReply(kind, error, fence, body, categories, action) ==
  [kind |-> kind, error |-> error, fence |-> fence, body |-> body,
   categories |-> categories, recommended_action |-> action]

ModerationCategory ==
  <<"hate_speech", "violence", "sexual_content", "harassment", "self_harm",
    "spam", "misinformation", "safe">>

\* the seven categories the prompt asks for, those of `flagged` flagged
Categories(flagged, confidence) ==
  [i \in 1..7 |-> [name |-> ModerationCategory[i],
                   flagged |-> ModerationCategory[i] \in flagged,
                   confidence |-> confidence]]

ModerationError == ModerationReply("error", "APIError", "none", "invalid", <<>>, None)
ModerationNoContent == ModerationReply("empty", None, "none", "invalid", <<>>, None)
Unparsable == ModerationReply("text", None, "none", "invalid", <<>>, None)
CleanReply ==
  ModerationReply("text", None, "json", "object", Categories({}, 95), "allow")
SpamReply ==
  ModerationReply("text", None, "none", "object", Categories({"spam"}, 90), "block")
HatefulReply ==
  ModerationReply("text", None, "plain", "object",
                  Categories({"hate_speech", "violence", "harassment",
                              "self_harm"}, 95), "block")
UnknownCategoryReply ==
  ModerationReply("text", None, "none", "object",
                  Categories({}, 95)
                    \o <<[name |-> "profanity", flagged |-> TRUE,
                          confidence |-> 85]>>, "review")
ArrayReply == ModerationReply("text", None, "none", "array", <<>>, None)

ModerationReplies ==
  {ModerationError, ModerationNoContent, Unparsable, CleanReply, SpamReply,
   HatefulReply, UnknownCategoryReply, ArrayReply}

\* the fallback of _parse_moderation_response
ModerationFallback ==
  [json |-> "object", categories |-> Categories({}, 50),
   overall_risk_score |-> 0, recommended_action |-> "review"]

\* the code fences are cut off before json.loads, which raises JSONDecodeError
\* on a text that is still fenced or is not JSON
StripFence(reply) == [reply EXCEPT !.fence = "none"]
JSONDecodeError(reply) == reply.fence # "none" \/ reply.body = "invalid"

_parse_moderation_response(reply) ==
  LET stripped == StripFence(reply)
  IN  IF JSONDecodeError(stripped) THEN ModerationFallback
      ELSE [json |-> stripped.body, categories |-> stripped.categories,
            overall_risk_score |-> 0,
            recommended_action |-> stripped.recommended_action]

RECURSIVE TotalRisk(_)
TotalRisk(categories) ==
  IF categories = <<>> THEN 0
  ELSE (IF Head(categories).flagged THEN Head(categories).confidence ELSE 0)
         + TotalRisk(Tail(categories))

\* _calculate_overall_risk, as the fraction num / den
_calculate_overall_risk(categories) ==
  IF Len(categories) > 0
  THEN [num |-> TotalRisk(categories), den |-> 100 * Len(categories)]
  ELSE [num |-> 0, den |-> 1]

\* risk > tenths / 10,  risk < tenths / 10
RiskAbove(risk, tenths) == 10 * risk.num > tenths * risk.den
RiskBelow(risk, tenths) == 10 * risk.num < tenths * risk.den

_determine_action(risk_score, strict_mode) ==
  IF strict_mode
  THEN IF RiskAbove(risk_score, 3) THEN "block"
       ELSE IF RiskAbove(risk_score, 1) THEN "review" ELSE "allow"
  ELSE IF RiskAbove(risk_score, 5) THEN "block"
       ELSE IF RiskAbove(risk_score, 2) THEN "review" ELSE "allow"

\* the names ModerationCategory(...) accepts
KnownCategories(categories) ==
  SelectSeq(categories,
            LAMBDA c : \E i \in DOMAIN ModerationCategory :
                         ModerationCategory[i] = c.name)

\* BaseAgent.execute followed by the body of ModeratorAgent.moderate
moderate(req, reply) ==
  IF ~req.configured THEN NoCall("ValueError")
  ELSE IF reply.kind = "error" THEN Failure(reply.error)
  ELSE IF reply.kind = "empty" THEN Failure("IndexError")
  ELSE LET parsed_data == _parse_moderation_response(reply)
           overall_risk == _calculate_overall_risk(parsed_data.categories)
       IN  IF parsed_data.json # "object" THEN Failure("AttributeError")
           ELSE Success(
                  [is_safe |-> RiskBelow(overall_risk,
                                         IF req.strict_mode THEN 3 ELSE 5),
                   results |-> KnownCategories(parsed_data.categories),
                   overall_risk_score |-> overall_risk,
                   recommended_action |->
                     _determine_action(overall_risk, req.strict_mode),
                   provider |-> req.provider])

\* ModeratorAgent.moderate(request)
Moderate ==
  /\ entry = "moderate" /\ pc = "start"
  /\ \E reply \in ModerationReplies :
       LET outcome == moderate(argument[1], reply)
       IN  /\ log' = IF outcome.called THEN Append(log, Attempt(reply))
                                       ELSE log
           /\ IF outcome.raised = None
              THEN value' = outcome.value /\ pc' = "returned"
                   /\ UNCHANGED raised
              ELSE raised' = outcome.raised /\ pc' = "raised"
                   /\ UNCHANGED value
  /\ attempt_number' = attempt_number + 1
  /\ UNCHANGED <<_scorer, constructions, flights, retries>>
  /\ UNCHANGED <<argument, entry, request, articles, cur, pool, k, similar,
                 fact_consistency_score, verification_result, result,
                 scores, failed, response>>

InitServices ==
  /\ entry \in {"summarize", "summarize_async", "translate", "moderate"}
  /\ argument \in {<<req>> : req \in
                     (IF entry = "translate" THEN TranslateRequests
                      ELSE IF entry = "moderate" THEN ModerationRequests
                      ELSE ServiceRequests)}
  /\ request = <<>>
  /\ value = <<>>
  /\ _scorer = <<>>
  /\ constructions = 0
  /\ flights = <<>>
  /\ attempt_number = 0
  /\ retries = 0
  /\ articles = <<>>
  /\ pc = "start"
  /\ cur = 0
  /\ pool = <<>>
  /\ k = 0
  /\ similar = <<>>
  /\ fact_consistency_score = 0
  /\ verification_result = NoVerification
  /\ result = <<>>
  /\ raised = None
  /\ scores = <<>>
  /\ failed = 0
  /\ response = NoResponse
  /\ log = <<>>

NextServices ==
  \/ Summarize
  \/ RetryTask
  \/ Translate
  \/ Moderate

SpecServices == InitServices /\ [][NextServices]_vars

Next ==
  \/ PostCalculate
  \/ EmbedArticle(EmbeddingReplies)
  \/ CompareOther(EmbeddingReplies)
  \/ CheckFacts(FactReplies)
  \/ Verify(CompletionReplies)
  \/ Aggregate
  \/ CalculateRespond
  \/ CalculateError
  \/ CallCheckFactConsistency(UnitCompletionReplies)

NextBatch ==
  \/ PostBatch
  \/ EmbedArticle(FewEmbeddingReplies)
  \/ CompareOther(FewEmbeddingReplies)
  \/ CheckFacts(FewCompletionReplies)
  \/ Verify(FewCompletionReplies)
  \/ Aggregate
  \/ BatchAppend
  \/ BatchExcept

NextUnits ==
  \/ CallCrossCoverage
  \/ CallSourceDiversity
  \/ GetBadge

NextConcurrent ==
  \E r \in FlightIds :
    \/ FlightStart(r)
    \/ FlightEmbedArticle(r)
    \/ FlightCompareOther(r)
    \/ FlightCheckFacts(r)
    \/ FlightVerify(r)
    \/ FlightRespond(r)
    \/ FlightError(r)

Spec == Init /\ [][Next]_vars

SpecBatch == InitBatch /\ [][NextBatch]_vars

SpecUnits == InitUnits /\ [][NextUnits]_vars

SpecConcurrent == InitConcurrent /\ [][NextConcurrent]_vars

TypeOK == pc \in {"start", "embed_article", "compare", "verify", "aggregate",
                  "returned", "raised", "done"}

\* ================================================================== claims
Range(seq) == {seq[i] : i \in DOMAIN seq}
Positions(seq) == [i \in 1..Len(seq) |-> i]
Count(seq, x) == Cardinality({i \in DOMAIN seq : seq[i] = x})

Calls(name) == {i \in DOMAIN log : log[i].call = name}
EmbeddingFailures == {i \in Calls("embedding") : log[i].reply.kind = "error"}
ProviderExceptionIn(run) ==
  \E i \in DOMAIN log : log[i].run = run /\ log[i].reply.kind = "error"

\* calculate_credibility has left _find_similar_articles without an exception
Clustered == pc \in {"verify", "aggregate", "returned"}
               \/ (pc = "done" /\ response.status = 200)
\* the POST /calculate handler has answered
Answered == entry = "calculate" /\ pc = "done"
BatchAnswered == entry = "batch" /\ pc = "done"
InPipeline == pc \in {"embed_article", "compare", "verify", "aggregate",
                      "returned", "raised"}

\* scoring request[i] against the articles `others` subtracts a naive from an
\* aware timestamp (the first such candidate with another id raises)
MixedTimestamps(req, i, others) ==
  \E j \in others : req[j].id # req[i].id /\ req[j].aware # req[i].aware

\* ---- C1: every score returned by calculate_credibility is within 0..100
\* (tenths: 0..1000), whatever the providers reply.
C1_ScoreInRange ==
  \A i \in DOMAIN result : 0 <= result[i].score /\ result[i].score <= 1000

\* ---- C2: no provider failure (embedding or completion: API error, or a
\* reply that cannot be parsed) leaves calculate_credibility as an error: the
\* only exception that ever leaves it is the timestamp TypeError of the
\* input, and the handler answers 200 exactly when the input has no such
\* timestamps.
C2_ProviderFailureNotPropagated ==
  /\ raised \in {None, DatetimeTypeError}
  /\ Answered =>
       (response.status = 200
          <=> ~MixedTimestamps(request, 1, 2..Len(request)))
  /\ (Answered /\ response.status = 200) => Len(result) = 1

C2_Witness ==
  /\ Answered /\ response.status = 200 /\ Len(result) = 1
  /\ EmbeddingFailures # {}
  /\ \E i \in Calls("fact_consistency") : log[i].reply.kind = "error"
  /\ \E i \in Calls("ai_verification") : log[i].reply = NotJson

\* ---- C6: _find_similar_articles returns, in candidate order, exactly the
\* candidates with another id, at most 3 days away and with cosine
\* similarity >= 0.75 (3 days and 0.75 included, 4 days and 0.70 excluded).
CosineAtLeast075(u, v) ==
  /\ NormSq(u) > 0 /\ NormSq(v) > 0
  /\ Dot(u, v) >= 0
  /\ 16 * Dot(u, v) * Dot(u, v) >= 9 * NormSq(u) * NormSq(v)

DaysApart(a, b) == Abs(articles[a].published_at - articles[b].published_at)

ExpectedSimilar(c) ==
  /\ articles[c].id # articles[cur].id
  /\ DaysApart(cur, c) <= 3
  /\ CosineAtLeast075(articles[cur].embedding, articles[c].embedding)

C6_FindSimilarArticles ==
  (entry = "calculate" /\ Clustered) =>
    /\ similar = SelectSeq(pool, ExpectedSimilar)
    /\ \A c \in Range(pool) :
         articles[c].embedding = NoEmbedding
           <=> (articles[c].id = articles[cur].id \/ DaysApart(cur, c) > 3)
    /\ \A c \in Range(pool) :
         /\ DaysApart(cur, c) = 4 => c \notin Range(similar)
         /\ ( /\ articles[c].id # articles[cur].id /\ DaysApart(cur, c) = 3
              /\ articles[cur].embedding = E_ref
              /\ articles[c].embedding = E_075 )
              => c \in Range(similar)
         /\ (articles[cur].embedding = E_ref /\ articles[c].embedding = E_070)
              => c \notin Range(similar)

C6_Witness ==
  /\ entry = "calculate" /\ pc = "done" /\ response.status = 200
  /\ Len(pool) = 2 /\ similar = <<pool[1]>>
  /\ DaysApart(cur, pool[1]) = 3 /\ DaysApart(cur, pool[2]) = 4
  /\ articles[cur].embedding = E_ref /\ articles[pool[1]].embedding = E_075

\* ---- C7 (as stated): similar_articles never contains the target's id and
\* never contains an id twice, for every candidate list.
C7_NoSelfNoDuplicate ==
  \A r \in DOMAIN result :
    /\ articles[cur].id \notin Range(result[r].similar_articles)
    /\ \A i, j \in DOMAIN result[r].similar_articles :
         i # j => result[r].similar_articles[i] # result[r].similar_articles[j]

\* ---- C7 (amended): similar_articles never contains the target's id and
\* contains no id more often than the candidate list does (so no id twice
\* when the candidate ids are pairwise distinct).
C7_NoSelfNoNewDuplicate ==
  \A r \in DOMAIN result :
    /\ articles[cur].id \notin Range(result[r].similar_articles)
    /\ \A x \in Range(result[r].similar_articles) :
         Count(result[r].similar_articles, x)
           <= Count([i \in DOMAIN pool |-> articles[pool[i]].id], x)

C7_Witness ==
  /\ entry = "calculate" /\ Len(result) = 1
  /\ Len(pool) = 2 /\ articles[pool[1]].id = articles[pool[2]].id
  /\ Len(result[1].similar_articles) = 2
  /\ result[1].similar_articles[1] = result[1].similar_articles[2]

\* ---- C8: after a failed embedding call the article holds the zero vector,
\* whose cosine similarity to every vector is 0.0: a target whose lookup
\* failed has no similar articles, a candidate whose lookup failed is not
\* among them, and no exception is raised by the failure.
C8_ZeroVectorOnFailure ==
  \A i \in EmbeddingFailures :
    /\ raised \in {None, DatetimeTypeError}
    /\ articles[log[i].obj].embedding = ZeroVector
    /\ Len(articles[log[i].obj].embedding) = EmbDim
    /\ \A o \in DOMAIN articles :
         articles[o].embedding # NoEmbedding =>
           _cosine_similarity(ZeroVector, articles[o].embedding).num = 0
    /\ log[i].obj \notin Range(similar)
    /\ log[i].obj = cur => similar = <<>>
    /\ \A r \in DOMAIN result :
         /\ log[i].obj = cur => result[r].similar_articles = <<>>
         /\ Len(result[r].similar_articles) = Len(similar)

C8_Witness ==
  /\ Answered /\ response.status = 200
  /\ \E i \in EmbeddingFailures : log[i].obj = cur
  /\ \E c \in Range(pool) :
       /\ articles[c].embedding \notin {NoEmbedding, ZeroVector}
       /\ \E d \in Range(pool) : articles[d].embedding = ZeroVector

\* ---- C10: with zero similar articles _check_fact_consistency yields
\* exactly 50.0 without calling the completion provider, and a pipeline run
\* with zero similar articles makes no fact-consistency call: its only
\* completion call is the AI verification.
C10_NoFactCallWithoutSimilar ==
  /\ (entry = "check" /\ pc = "done" /\ similar = <<>>) =>
       /\ fact_consistency_score = NEUTRAL_SCORE
       /\ log = <<>>
       /\ raised = None
  /\ (entry = "calculate" /\ InPipeline /\ similar = <<>> /\ pc # "compare") =>
       {i \in Calls("fact_consistency") : log[i].run = cur} = {}
  /\ (entry = "calculate" /\ similar = <<>> /\ pc \in {"aggregate", "returned", "done"}
        /\ raised = None) =>
       /\ Calls("fact_consistency") = {}
       /\ Cardinality(Calls("ai_verification")) = 1

C10_Witness ==
  /\ entry = "check" /\ pc = "done" /\ similar = <<>>
  /\ fact_consistency_score = 50

\* ---- C3 (as stated): in a batch of 3 where only the middle article
\* triggers a provider exception, the response holds 2 scores and failed = 1.
OnlyMiddleProviderException ==
  /\ Len(request) = 3
  /\ ProviderExceptionIn(2) /\ ~ProviderExceptionIn(1) /\ ~ProviderExceptionIn(3)

C3_ProviderExceptionExcluded ==
  (BatchAnswered /\ OnlyMiddleProviderException) =>
    Len(response.scores) = 2 /\ response.failed = 1

\* ---- C3 (amended): a provider exception never removes an article from the
\* batch result; the articles counted as failed are exactly those whose
\* scoring raises the timestamp TypeError; with 3 articles, no such error and
\* a provider exception in the middle one only, there are 3 scores, failed = 0.
FailingArticles(req) ==
  {i \in DOMAIN req : MixedTimestamps(req, i, DOMAIN req)}

NonFailing(req) ==
  SelectSeq(Positions(req), LAMBDA i : i \notin FailingArticles(req))

C3_ProviderExceptionStillScored ==
  BatchAnswered =>
    /\ response.failed = Cardinality(FailingArticles(request))
    /\ Len(response.scores) = Len(request) - Cardinality(FailingArticles(request))
    /\ (OnlyMiddleProviderException /\ FailingArticles(request) = {}) =>
         Len(response.scores) = 3 /\ response.failed = 0

C3_Witness ==
  /\ BatchAnswered /\ OnlyMiddleProviderException
  /\ Len(response.scores) = 3 /\ response.failed = 0
  /\ \E i \in Calls("ai_verification") : log[i].run = 2 /\ log[i].reply = ApiError

\* ---- C4: whatever subset of the articles fails, the batch answers 200,
\* processed = number of scores, processed + failed = N, and the scores are
\* those of the non-failing articles in input order.
C4_BatchIsolation ==
  /\ entry = "batch" => response.status \in {0, 200}
  /\ BatchAnswered =>
       /\ response.status = 200
       /\ response.processed = Len(response.scores)
       /\ response.processed + response.failed = Len(request)
       /\ [i \in DOMAIN response.scores |-> response.scores[i].article_id]
            = [i \in DOMAIN NonFailing(request) |-> request[NonFailing(request)[i]].id]

C4_Witness ==
  /\ BatchAnswered /\ Len(request) = 3
  /\ response.failed = 2 /\ response.processed = 1

\* ---- C5 (as stated): in batch mode every article is scored against
\* exactly the other N-1 articles, for every input list.
C5_PoolIsTheOthers ==
  (entry = "batch" /\ InPipeline) =>
    pool = SelectSeq(Positions(request), LAMBDA j : j # cur)

\* ---- C5 (amended): in batch mode every article is scored against exactly
\* the articles of the batch whose id differs from its own, in batch order;
\* these are the other N-1 articles when the ids are pairwise distinct.
C5_PoolIsOtherIds ==
  (entry = "batch" /\ InPipeline) =>
    /\ pool = SelectSeq(Positions(request),
                        LAMBDA j : request[j].id # request[cur].id)
    /\ (\A i, j \in DOMAIN request : i # j => request[i].id # request[j].id)
         => /\ Len(pool) = Len(request) - 1
            /\ Range(pool) = DOMAIN request \ {cur}

C5_Witness ==
  /\ entry = "batch" /\ pc = "returned" /\ Len(request) = 3
  /\ Len(pool) = 1
  /\ \E j \in DOMAIN request : j # cur /\ request[j].id = request[cur].id

\* ---- C9: within one calculate_credibility call the embedding provider is
\* invoked at most once per article object; an embedding that is set is
\* never fetched again nor changed, and each comparison is decided on the
\* stored values.
NewEmbeddingCallFor(o) ==
  /\ Len(log') = Len(log) + 1
  /\ log'[Len(log')].call = "embedding"
  /\ log'[Len(log')].obj = o

C9_EmbeddingFetchedOnce ==
  /\ [](\A i, j \in Calls("embedding") :
          (i # j /\ log[i].run = log[j].run) => log[i].obj # log[j].obj)
  /\ [][ /\ \A o \in DOMAIN articles :
              articles[o].embedding # NoEmbedding =>
                /\ articles'[o].embedding = articles[o].embedding
                /\ ~NewEmbeddingCallFor(o)
         /\ (pc = "compare" /\ k' = k + 1) =>
              ( similar' = Append(similar, pool[k])
                  <=> /\ articles[pool[k]].id # articles[cur].id
                      /\ DaysApart(cur, pool[k]) <= 3
                      /\ CosineAtLeast075(articles'[cur].embedding,
                                          articles'[pool[k]].embedding) )
       ]_vars

C9_Witness ==
  /\ entry = "batch" /\ pc = "verify" /\ cur >= 2
  /\ \E o \in Range(pool) :
       /\ \E i \in Calls("embedding") : log[i].obj = o /\ log[i].run < cur
       /\ o \in Range(similar)
       /\ ~\E i \in Calls("embedding") : log[i].obj = o /\ log[i].run = cur
  /\ ~\E i \in Calls("embedding") : log[i].run = cur

\* ---- C11: a CredibilityScore with zero similar articles has
\* fact_consistency = 50, and its score and verification_status are those of
\* the weighted sum taken with 50 for the fact-consistency factor.
WithNeutralFacts(factors) == [factors EXCEPT !.fact_consistency = NEUTRAL_SCORE]

C11_NeutralWithoutSimilar ==
  \A r \in DOMAIN result :
    result[r].similar_articles = <<>> =>
      /\ result[r].fact_consistency = NEUTRAL_SCORE
      /\ result[r].factors.fact_consistency = NEUTRAL_SCORE
      /\ result[r].score
           = RoundToTenths(FinalScore(WithNeutralFacts(result[r].factors)))
      /\ result[r].verification_status
           = VerificationStatus(FinalScore(WithNeutralFacts(result[r].factors)))

\* ---- C12: with at least one similar article, the fact_consistency factor
\* is the reply's consistency_score when the completion call succeeds and its
\* reply parses to a numeric consistency_score, and exactly 50.0 otherwise
\* (call failure, text that is not a JSON object, missing, null or
\* non-numeric field); no exception leaves the checker, and
\* calculate_credibility returns a result.
HasNumericConsistencyScore(reply) ==
  /\ reply.kind = "text" /\ ~reply.fenced /\ reply.body = "object"
  /\ reply.consistency_score.tag = "num"

ExpectedFactConsistency(reply) ==
  IF HasNumericConsistencyScore(reply) THEN reply.consistency_score.val ELSE 50

C12_FactConsistencyFallback ==
  /\ \A i \in Calls("fact_consistency") :
       /\ raised = None /\ pc # "raised"
       /\ Len(similar) >= 1
       /\ pc \in {"verify", "aggregate", "returned", "done"} =>
            fact_consistency_score = ExpectedFactConsistency(log[i].reply)
       /\ \A r \in DOMAIN result :
            /\ result[r].fact_consistency = ExpectedFactConsistency(log[i].reply)
            /\ result[r].factors.fact_consistency = result[r].fact_consistency
       /\ Answered => response.status = 200 /\ Len(result) = 1
  /\ (entry = "check" /\ pc = "done" /\ Len(similar) >= 1) =>
       Cardinality(Calls("fact_consistency")) = 1
  /\ (entry = "calculate" /\ pc \in {"verify", "aggregate", "returned"}
        /\ Len(similar) >= 1) =>
       Cardinality(Calls("fact_consistency")) = 1

C12_Witness ==
  /\ Answered /\ response.status = 200 /\ Len(similar) >= 1
  /\ \E i \in Calls("fact_consistency") : log[i].reply = NotJson
  /\ result[1].fact_consistency = 50
  /\ response.scores[1].fact_consistency = 50

\* ---- C13 (as stated): every calculate_credibility call issues the
\* AI-verification completion call exactly once.
VerificationCalls(run) ==
  {i \in Calls("ai_verification") : log[i].run = run}

C13_VerifiedExactlyOnce ==
  BatchAnswered =>
    \A run \in DOMAIN request : Cardinality(VerificationCalls(run)) = 1

\* ---- C13 (amended): a calculate_credibility call never issues the
\* AI-verification call twice, whatever the first reply was; a call that
\* returns has issued it exactly once, with or without similar articles; a
\* call that raises in _find_similar_articles (timestamp TypeError) has
\* issued none.
C13_VerifiedOnceUnlessRaised ==
  /\ \A run \in DOMAIN articles : Cardinality(VerificationCalls(run)) <= 1
  /\ (entry = "batch" /\ pc \in {"aggregate", "returned"}) =>
       Cardinality(VerificationCalls(cur)) = 1
  /\ (entry = "batch" /\ pc = "raised") => VerificationCalls(cur) = {}
  /\ BatchAnswered =>
       \A run \in DOMAIN request :
         Cardinality(VerificationCalls(run))
           = (IF run \in FailingArticles(request) THEN 0 ELSE 1)

C13_Witness ==
  /\ BatchAnswered /\ Len(request) = 2 /\ FailingArticles(request) = {}
  /\ \E i \in VerificationCalls(1) :
       /\ log[i].reply = ApiError
       /\ Calls("fact_consistency") = {}
  /\ Cardinality(VerificationCalls(1)) = 1
  /\ Cardinality(VerificationCalls(2)) = 1
  /\ response.scores[1].similar_articles = <<>>

\* ---- C14: whenever the AI verification step fails (the call raises, the
\* text is not a JSON object, or the object lacks score or confidence),
\* _ai_verification returns exactly score 50.0, confidence 0.3, flags [] and
\* strengths [].
VerificationFailure(reply) ==
  \/ reply.kind = "error"
  \/ /\ ~reply.fenced
     /\ \/ reply.body # "object"
        \/ reply.score.tag # "num"
        \/ reply.confidence.tag # "num"

C14_FallbackOnAnyFailure ==
  \A i \in Calls("ai_verification") :
    (VerificationFailure(log[i].reply) /\ pc \in {"aggregate", "returned", "done"}) =>
      /\ verification_result.score = 50
      /\ verification_result.confidence = 3
      /\ verification_result.flags = <<>>
      /\ verification_result.strengths = <<>>

\* ---- C15: a reply whose JSON object is wrapped in a markdown code fence
\* is parsed to the object's values: the fact-consistency checker returns its
\* consistency_score, the AI verifier its score and confidence.
FencedObject(reply) ==
  reply.kind = "text" /\ reply.fenced /\ reply.body = "object"

C15_FencedReplyParsed ==
  \A i \in DOMAIN log :
    (log[i].call # "embedding" /\ FencedObject(log[i].reply)) =>
      /\ (log[i].call = "fact_consistency"
            /\ pc \in {"verify", "aggregate", "returned", "done"}) =>
           fact_consistency_score = log[i].reply.consistency_score.val
      /\ (log[i].call = "ai_verification"
            /\ pc \in {"aggregate", "returned", "done"}) =>
           /\ verification_result.score = log[i].reply.score.val
           /\ verification_result.confidence = log[i].reply.confidence.val

\* ---- C16: the verification_status of every returned CredibilityScore is
\* the band of the record's own (rounded) score: >= 90 verified, >= 70
\* credible, >= 50 unverified, else questionable.
BandOfScore(score) ==
  IF score >= 900 THEN "verified"
  ELSE IF score >= 700 THEN "credible"
  ELSE IF score >= 500 THEN "unverified"
  ELSE "questionable"

C16_StatusIsBandOfScore ==
  \A r \in DOMAIN result :
    result[r].verification_status = BandOfScore(result[r].score)

\* ---- C17: the returned score is the weighted sum 0.30*cross_coverage +
\* 0.20*source_diversity + 0.20*source_reputation + 0.15*fact_consistency +
\* 0.15*ai_verification of the entries of the returned factors mapping,
\* rounded to one decimal (within 0.05 of the sum); the mapping has exactly
\* these five keys, and they hold the values the calculators and the two
\* remote steps produced.
\* the weighted sum times 100 * den, den the denominator of source_reputation
WeightedSumTimes(f) ==
  f.source_reputation.den
      * (30 * f.cross_coverage + 20 * f.source_diversity
           + 15 * f.fact_consistency + 15 * f.ai_verification)
    + 20 * f.source_reputation.num

\* score (in tenths) is a nearest tenth of the weighted sum
NearestTenth(score, f) ==
  LET d == 100 * f.source_reputation.den
      diff == 10 * WeightedSumTimes(f) - score * d
  IN  2 * Abs(diff) <= d

C17_ScoreIsWeightedSum ==
  \A r \in DOMAIN result :
    LET f == result[r].factors
    IN  /\ DOMAIN f = {"cross_coverage", "source_diversity", "source_reputation",
                       "fact_consistency", "ai_verification"}
        /\ NearestTenth(result[r].score, f)
        /\ f.cross_coverage = _calculate_cross_coverage_score(similar)
        /\ f.source_diversity = result[r].source_diversity
        /\ f.fact_consistency = fact_consistency_score
        /\ f.ai_verification = verification_result.score
        /\ f.source_reputation.den = Len(similar) + 1

C17_Witness ==
  /\ Answered /\ response.status = 200 /\ Len(similar) = 2
  /\ result[1].factors.source_reputation.den = 3
  /\ (20 * WeightedSumTimes(result[1].factors)) % 300 # 0
  /\ result[1].factors.fact_consistency = 80
  /\ result[1].factors.ai_verification = 93
  /\ response.scores[1].score = result[1].score

\* ---- C18: the cross-coverage score is a function of n = len(similar) + 1
\* alone: 40, 60, 75, 85 for n = 1..4, then 87, 89, 91, 93 for n = 5..8 and
\* 95 from n = 9 on; it never decreases when a source is added and never
\* exceeds 95.
ExpectedCrossCoverage(n) ==
  CASE n = 1 -> 40
    [] n = 2 -> 60
    [] n = 3 -> 75
    [] n = 4 -> 85
    [] n \in 5..8 -> 85 + 2 * (n - 4)
    [] n >= 9 -> 95

CrossCoverageReturned == entry = "cross_coverage" /\ pc = "done"

BadgeReturned == entry = "badge" /\ pc = "done"

ExpectedBadge(score) ==
  CASE score >= 900 -> <<"green", "Verified">>
    [] score >= 700 /\ score < 900 -> <<"blue", "Credible">>
    [] score >= 500 /\ score < 700 -> <<"yellow", "Unverified">>
    [] score < 500 -> <<"red", "Questionable">>

C19_BadgeOfScore ==
  BadgeReturned =>
    /\ <<value[1].color, value[1].text>> = ExpectedBadge(argument[1])
    /\ argument[1] \in {900, 700, 500} =>
         value[1].color \in {"green", "blue", "yellow"}
    /\ argument[1] = 899 => value[1].text = "Credible"
    /\ argument[1] = 699 => value[1].text = "Unverified"
    /\ argument[1] = 499 => value[1].text = "Questionable"
    /\ log = <<>> /\ articles = <<>> /\ result = <<>> /\ similar = <<>>

C19_Witness ==
  /\ BadgeReturned
  /\ argument = <<900>>
  /\ value[1] = [color |-> "green", text |-> "Verified"]

\* ---- C20 (as stated): the source-diversity score is
\* 0.6 * (distinct source_type values / 3 * 100) + 0.4 * B, with
\* B = distinct non-null source_bias values / 4 * 100 when there is one, else
\* 50; that is 20 per type plus 10 per bias label, or plus 20 without label.
DiversityReturned == entry = "source_diversity" /\ pc = "done"

SourceTypes(req) == {req[i].source_type : i \in DOMAIN req}
NonNullBiases(req) == {req[i].source_bias : i \in DOMAIN req} \ {None}
NonEmptyBiases(req) == NonNullBiases(req) \ {""}

DiversityOf(types, biases) ==
  20 * Cardinality(types)
    + (IF Cardinality(biases) > 0 THEN 10 * Cardinality(biases) ELSE 20)

C20_DiversityOfNonNullBiases ==
  DiversityReturned =>
    /\ value = <<DiversityOf(SourceTypes(request), NonNullBiases(request))>>
    /\ ( /\ Cardinality(SourceTypes(request)) <= 3
         /\ Cardinality(NonNullBiases(request)) <= 4 ) => value[1] <= 100

\* ---- C20 (amended): as above, with B counting the distinct non-empty bias
\* labels: a null label and an empty-string label are both left out, and B
\* is 50 when no other label occurs.  The score is not clamped (4 types give
\* more than 100) and is at most 100 with at most 3 types and 4 labels.
C20_DiversityOfNonEmptyBiases ==
  DiversityReturned =>
    /\ value = <<DiversityOf(SourceTypes(request), NonEmptyBiases(request))>>
    /\ ( /\ Cardinality(SourceTypes(request)) <= 3
         /\ Cardinality(NonEmptyBiases(request)) <= 4 ) => value[1] <= 100
    /\ ( /\ Cardinality(SourceTypes(request)) = 4
         /\ Cardinality(NonEmptyBiases(request)) = 3 ) => value[1] = 110

C20_Witness ==
  /\ DiversityReturned
  /\ Len(request) = 2
  /\ request[1].source_bias = "" /\ request[2].source_bias = None
  /\ request[1].source_type # request[2].source_type
  /\ value = <<60>>

\* ---- C21: the confidence of the returned CredibilityScore (and of the
\* response) is the confidence produced by the AI verification step of the
\* same call: 0.3 when the step fell back, else the value read from the
\* reply; it is determined by that reply alone, whatever the other factors.
VerifierFellBack(reply) ==
  reply.kind = "error" \/ reply.fenced \/ reply.body # "object"
    \/ reply.score.tag \in {"str", "null"}
    \/ reply.confidence.tag \in {"str", "null"}

ExpectedConfidence(reply) ==
  IF VerifierFellBack(reply) THEN 3
  ELSE IF reply.confidence.tag = "num" THEN reply.confidence.val
  ELSE 5

C21_ConfidenceIsVerifierConfidence ==
  \A r \in DOMAIN result :
    /\ result[r].confidence = verification_result.confidence
    /\ \A i \in Calls("ai_verification") :
         log[i].run = cur =>
           result[r].confidence = ExpectedConfidence(log[i].reply)
    /\ (Answered /\ response.status = 200) =>
         response.scores[1].confidence = result[r].confidence

C21_Witness ==
  /\ Answered /\ response.status = 200 /\ Len(similar) = 2
  /\ \E i \in Calls("ai_verification") : log[i].reply = ApiError
  /\ \E i \in Calls("fact_consistency") : log[i].reply = GoodReply
  /\ response.scores[1].confidence = 3
  /\ response.scores[1].factors.fact_consistency = 80

\* ---- C22: the explanation lists, in this order, one source-count phrase
\* (single source for 0 similar, "Covered by 2 sources" for 1, "Covered by
\* k+1 sources" for k >= 2), one diversity phrase (>= 80, >= 60, else), a
\* reputation phrase only from 60 up (>= 80, else), and a fact-consistency
\* phrase (>= 80, >= 60, below 60 only with similar articles); with 0
\* similar articles it starts with the single-source phrase and has no
\* fact-consistency phrase.
CoveragePhrase(n) ==
  CASE n = 0 -> "Single source - no cross-verification available"
    [] n = 1 -> "Covered by 2 sources"
    [] n = 2 -> "Covered by 3 sources"
    [] n = 3 -> "Covered by 4 sources"
    [] n >= 4 -> "Covered by " \o ToString(n + 1) \o " sources"

DiversityPhrase(d) ==
  CASE d >= 80 -> "diverse source types"
    [] d >= 60 /\ d < 80 -> "moderate source diversity"
    [] d < 60 -> "limited source diversity"

ReputationPhrases(rep) ==
  CASE rep.num >= 80 * rep.den -> <<"reputable sources">>
    [] rep.num >= 60 * rep.den /\ rep.num < 80 * rep.den ->
         <<"moderately reputable sources">>
    [] rep.num < 60 * rep.den -> <<>>

ConsistencyPhrases(fc, n) ==
  CASE fc >= 80 -> <<"facts consistent across sources">>
    [] fc >= 60 /\ fc < 80 -> <<"mostly consistent facts">>
    [] fc < 60 /\ n > 0 -> <<"some fact inconsistencies">>
    [] fc < 60 /\ n = 0 -> <<>>

C22_ExplanationPhrases ==
  \A r \in DOMAIN result :
    LET f == result[r].factors
        n == Len(result[r].similar_articles)
    IN  /\ result[r].explanation
             = <<CoveragePhrase(n), DiversityPhrase(f.source_diversity)>>
                 \o ReputationPhrases(f.source_reputation)
                 \o ConsistencyPhrases(f.fact_consistency, n)
        /\ n = 0 =>
             /\ result[r].explanation[1]
                  = "Single source - no cross-verification available"
             /\ Len(result[r].explanation) \in {2, 3}
             /\ \A j \in DOMAIN result[r].explanation :
                  result[r].explanation[j]
                    \notin {"facts consistent across sources",
                            "mostly consistent facts",
                            "some fact inconsistencies"}
        /\ (Answered /\ response.status = 200) =>
             response.scores[1].explanation = result[r].explanation

C22_Witness ==
  /\ Answered /\ response.status = 200
  /\ Len(result[1].similar_articles) = 2
  /\ response.scores[1].explanation
       = <<"Covered by 3 sources", "diverse source types",
           "moderately reputable sources", "some fact inconsistencies">>

\* ---- C23: calculate_credibility changes nothing on the article objects
\* but an empty embedding: every other attribute of the target and of the
\* candidates stays as constructed from the request, an embedding that is
\* set is never changed, and the candidate list keeps its members and order.
WithoutEmbedding(a) == [a EXCEPT !.embedding = NoEmbedding]

C23_OnlyEmbeddingIsSet ==
  /\ [](articles # <<>> =>
          /\ Len(articles) = Len(request)
          /\ \A o \in DOMAIN articles :
               WithoutEmbedding(articles[o]) = ArticleMetadata(request[o]))
  /\ []((entry = "calculate" /\ pc # "start") =>
          pool = [i \in 1..(Len(request) - 1) |-> i + 1])
  /\ [][ /\ \A o \in DOMAIN articles :
              /\ WithoutEmbedding(articles'[o]) = WithoutEmbedding(articles[o])
              /\ articles[o].embedding # NoEmbedding =>
                   articles'[o].embedding = articles[o].embedding
         /\ pc # "start" => pool' = pool
       ]_vars

C23_Witness ==
  /\ Answered /\ response.status = 200 /\ Len(pool) = 2
  /\ articles[1].embedding = E_ref
  /\ articles[pool[1]].embedding = E_075
  /\ articles[pool[2]].embedding = NoEmbedding
  /\ similar = <<pool[1]>>
  /\ WithoutEmbedding(articles[pool[1]]) = ArticleMetadata(request[2])

\* ---- C24: under every interleaving of concurrent /calculate requests the
\* scorer is constructed at most once and every request holds that one
\* instance; the response of a request is the one its own input and the
\* provider replies it received determine, whatever the other requests do.
Started(r) == flights[r].pc # "start"

\* the candidates of `req` that reach the comparison, in order
Compared(req) ==
  SelectSeq(RelatedArticles(req),
            LAMBDA c : /\ req[c].id # req[1].id
                       /\ Abs(req[1].published_at - req[c].published_at) <= 3)

\* what one request alone answers to `req` when the providers reply `replies`
ResponseAlone(req, replies) ==
  LET compared == Compared(req)
      n == Len(compared)
      target == _get_embedding(replies[1]).value
      found == SelectSeq([j \in 1..n |-> j],
                 LAMBDA j : ReachesThreshold(
                   _cosine_similarity(target, _get_embedding(replies[1 + j]).value)))
      alike == [j \in 1..Len(found) |-> compared[found[j]]]
      facts == IF Len(alike) > 0
                 THEN _check_fact_consistency(alike, replies[n + 2]).value
                 ELSE 0
      verdict == _ai_verification(replies[Len(replies)]).value
  IN  IF MixedTimestamps(req, 1, 2..Len(req))
        THEN [NoResponse EXCEPT !.status = 500, !.detail = DatetimeTypeError]
        ELSE [status |-> 200, detail |-> None,
              scores |-> <<CredibilityScoreResponse(req[1].id,
                             CredibilityScore(Objects(req), 1, alike, facts, verdict))>>,
              processed |-> 1, failed |-> 0]

C24_SingletonAndIsolation ==
  entry = "concurrent" =>
    /\ constructions <= 1
    /\ \A r \in FlightIds :
         Started(r) =>
           /\ constructions = 1
           /\ _scorer = <<1>>
           /\ flights[r].scorer = _scorer
    /\ \A r \in FlightIds :
         flights[r].pc = "done" =>
           flights[r].response = ResponseAlone(flights[r].input, flights[r].replies)

C24_Witness ==
  /\ entry = "concurrent" /\ constructions = 1
  /\ flights[1].input = flights[2].input
  /\ flights[1].pc = "done" /\ flights[1].response.status = 200
  /\ flights[2].pc = "verify"
  /\ flights[1].scorer = flights[2].scorer
  /\ flights[1].similar # flights[2].similar
  /\ flights[1].articles[1].embedding # flights[2].articles[1].embedding

\* ---- C25: within one calculate_credibility run the remote calls are
\* issued in a fixed order: the embedding lookups of the clustering step,
\* then the fact-consistency call (if any), then the AI-verification call;
\* the CredibilityScore is built after all of them and no call follows it;
\* the badge of the response is derived from the CredibilityScore.
CallRank(name) ==
  CASE name = "embedding" -> 1
    [] name = "fact_consistency" -> 2
    [] name = "ai_verification" -> 3

C25_CallOrder ==
  /\ [](\A i, j \in DOMAIN log :
          i < j => CallRank(log[i].call) <= CallRank(log[j].call))
  /\ [](entry = "calculate" =>
          /\ Calls("fact_consistency") # {} => pc \notin {"embed_article", "compare"}
          /\ Calls("ai_verification") # {} => pc \notin {"embed_article", "compare", "verify"}
          /\ Len(result) = 1 =>
               /\ \E i \in Calls("embedding") : log[i].obj = cur
               /\ Cardinality(Calls("ai_verification")) = 1
               /\ log[Len(log)].call = "ai_verification"
               /\ Len(similar) > 0 => Cardinality(Calls("fact_consistency")) = 1
          /\ response.status = 200 =>
               /\ Len(result) = 1
               /\ response.scores[1].badge_text = _get_badge(result[1].score).text
               /\ response.scores[1].badge_color = _get_badge(result[1].score).color)
  /\ [][ /\ Len(result) = 1 => log' = log /\ result' = result
         /\ Len(result') = 1 => response.status = 0
       ]_vars

C25_Witness ==
  /\ Answered /\ response.status = 200
  /\ Len(log) = 5
  /\ [i \in 1..5 |-> log[i].call]
       = <<"embedding", "embedding", "embedding", "fact_consistency",
           "ai_verification">>
  /\ response.scores[1].badge_text = "Credible"


\* ---- C26
\* the provider calls of the current run of summarize() / translate()
ExecutionCalls == SelectSeq(log, LAMBDA c : c.execution = retries + 1)
IsApiError(reply) == reply.kind = "error" /\ reply.error \in ProviderApiErrors
AllApiErrors(calls) == \A i \in DOMAIN calls : IsApiError(calls[i].reply)
RetriedRequest ==
  /\ entry \in {"summarize", "summarize_async", "translate"}
  /\ argument[1].provider \in {"claude", "openai"}
ResultOfReply(reply) ==
  IF entry = "translate"
  THEN TranslateResponse(argument[1], Strip(ContentText(reply)))
  ELSE SummarizeResponse(argument[1],
                         _parse_response(reply, argument[1].keywords))

ModerationReturned == entry = "moderate" /\ pc = "returned"
UnparsableReply(reply) ==
  reply.kind = "text" /\ JSONDecodeError(StripFence(reply))

\* C27: when the provider's moderation reply cannot be parsed as JSON, the
\* outcome of moderate() recommends "review", never "allow" or "block".
C27_UnparsableRecommendsReview ==
  (ModerationReturned /\ UnparsableReply(log[Len(log)].reply)) =>
    value[1].recommended_action = "review"


\* ---- C28
\* the band a badge text names
BandOfBadge(text) ==
  CASE text = "Verified" -> "verified"
    [] text = "Credible" -> "credible"
    [] text = "Unverified" -> "unverified"
    [] OTHER -> "questionable"
SameBand(entries) ==
  \A i \in DOMAIN entries :
    BandOfBadge(entries[i].badge_text) = entries[i].verification_status

\* C28: in every /credibility/calculate response and in every entry a
\* /credibility/batch handler has collected, badge_text and
\* verification_status name the same band.
C28_BadgeAndStatusAgree == SameBand(response.scores) /\ SameBand(scores)


\* ---- C29
\* entry j of the batch scores lists the article of entry i as similar
ListsAsSimilar(j, i) ==
  scores[i].article_id \in Range(scores[j].similar_articles)
IdOccursOnce(id) ==
  Cardinality({p \in DOMAIN request : request[p].id = id}) = 1

\* C29 as stated: among the entries of one batch run, for any two with
\* different ids, each lists the other's id as similar or neither does.
C29_SimilarityIsSymmetric ==
  entry = "batch" =>
    \A i, j \in DOMAIN scores :
      scores[i].article_id # scores[j].article_id =>
        (ListsAsSimilar(i, j) <=> ListsAsSimilar(j, i))

\* C29, amended: the same, for any two entries whose ids are each carried by
\* one article of the batch only.
C29_SymmetricForUniqueIds ==
  entry = "batch" =>
    \A i, j \in DOMAIN scores :
      ( /\ scores[i].article_id # scores[j].article_id
        /\ IdOccursOnce(scores[i].article_id)
        /\ IdOccursOnce(scores[j].article_id) ) =>
        (ListsAsSimilar(i, j) <=> ListsAsSimilar(j, i))

\* two articles with ids of their own list each other, and a third one, which
\* the provider failed on, is listed by neither and lists neither
C29_Witness ==
  /\ entry = "batch" /\ pc = "done" /\ Len(scores) = 3
  /\ \A p \in DOMAIN request : IdOccursOnce(request[p].id)
  /\ \E i, j \in DOMAIN scores :
       /\ i # j
       /\ ListsAsSimilar(i, j) /\ ListsAsSimilar(j, i)
  /\ \E i \in DOMAIN scores :
       /\ scores[i].similar_articles = <<>>
       /\ \E p \in DOMAIN articles :
            /\ articles[p].id = scores[i].article_id
            /\ articles[p].embedding = ZeroVector


\* ---- C30
EmbeddingCallsFor(o) == {i \in Calls("embedding") : log[i].obj = o}

\* C30: across a whole batch run the embedding provider is invoked at most
\* once per article object, and the object keeps what that one call left on
\* it for the rest of the batch: the provider's vector, or the zero vector
\* after a failed lookup, which is not looked up again.
C30_OneLookupPerObjectInBatch ==
  entry = "batch" =>
    \A o \in DOMAIN articles :
      /\ Cardinality(EmbeddingCallsFor(o)) <= 1
      /\ \A i \in EmbeddingCallsFor(o) :
           /\ articles[o].embedding = _get_embedding(log[i].reply).value
           /\ log[i].reply = EmbeddingError =>
                articles[o].embedding = ZeroVector
      /\ (EmbeddingCallsFor(o) = {}) <=> articles[o].embedding = NoEmbedding

\* the lookup of a candidate failed in the first pipeline; the article went
\* through its own pipeline and was a candidate of a third one without
\* another lookup
C30_Witness ==
  /\ entry = "batch" /\ pc = "done" /\ Len(scores) = 3
  /\ \E o \in DOMAIN articles :
       /\ o > 1
       /\ articles[o].embedding = ZeroVector
       /\ \E i \in EmbeddingCallsFor(o) :
            log[i].run = 1 /\ log[i].reply = EmbeddingError
       /\ \E p \in DOMAIN articles :
            /\ p \notin {1, o}
            /\ articles[p].id # articles[o].id
            /\ DaysApart(p, o) <= 3
            /\ articles[p].embedding # NoEmbedding
====
